---- MODULE Spec2Model ----
(***************************************************************************)
(* Model of the deployment orchestrator of argon-core (src/src/cli/cli.ts). *)
(* The first part covers the migration engine: the `bolt migrate` command   *)
(* with its --create, --list, --run and --force branches, the migrations    *)
(* directory, and the `migrations` ledger table of argon.db.  The second    *)
(* part covers `bolt deploy`: the resolution of its configuration, the      *)
(* backend child process, the web servers with their fetch handlers, and    *)
(* the signal handlers.                                                     *)
(*                                                                         *)
(* Strings are sequences of one-character strings.  Time is counted in     *)
(* whole seconds, the resolution that the timestamp token of --create      *)
(* keeps after .slice(0, 14).                                              *)
(***************************************************************************)
EXTENDS Integers, Sequences, FiniteSets, TLC

\* ------------------------------------------------------------------ bounds
MaxFiles == 2      \* migration files that --create may put on disk
MaxTicks == 1      \* seconds the wall clock may advance past ClockBase
ClockBase == 9     \* first wall-clock second of the model
TsWidth == 2       \* digits of the timestamp token (14 in the source)
MaxCount == 2      \* the count of completed up() calls saturates here
MaxReq == 2        \* connections the deployment server has open at a time

Procs == {1, 2}    \* CLI processes; Spec runs one invocation at a time
Times == ClockBase..(ClockBase + MaxTicks)

\* ------------------------------------------------------- string helpers
Digits == <<"0", "1", "2", "3", "4", "5", "6", "7", "8", "9">>
Alphabet == <<" ", "_", ".">> \o Digits \o <<"a", "b", "s", "t">>
Whitespace == {" "}
TsExt == <<".", "t", "s">>

RankOf == [c \in {Alphabet[k] : k \in 1..Len(Alphabet)} |->
             CHOOSE k \in 1..Len(Alphabet) : Alphabet[k] = c]
CharRank(c) == RankOf[c]

RECURSIVE PadDigits(_, _)
\* Date#toISOString pads every field with zeros; the stripped string is a
\* fixed-width decimal number.
PadDigits(n, w) ==
  IF w = 0 THEN <<>>
  ELSE PadDigits(n \div 10, w - 1) \o <<Digits[(n % 10) + 1]>>

\* new Date().toISOString().replace(/[-:T.Z]/g, '').slice(0, 14)
Timestamp(now) == PadDigits(now, TsWidth)

RECURSIVE SlugFrom(_, _)
SlugFrom(s, inWs) ==
  IF s = <<>> THEN <<>>
  ELSE IF Head(s) \in Whitespace
       THEN (IF inWs THEN <<>> ELSE <<"_">>) \o SlugFrom(Tail(s), TRUE)
       ELSE <<Head(s)>> \o SlugFrom(Tail(s), FALSE)

\* options.create.replace(/\s+/g, '_')
Slug(name) == SlugFrom(name, FALSE)

\* `${timestamp}_${slug}.ts`
MigrationFileName(now, name) == Timestamp(now) \o <<"_">> \o Slug(name) \o TsExt

EndsWith(s, suffix) ==
  /\ Len(s) >= Len(suffix)
  /\ SubSeq(s, Len(s) - Len(suffix) + 1, Len(s)) = suffix

RECURSIVE SplitFrom(_, _, _)
SplitFrom(s, sep, cur) ==
  IF s = <<>> THEN <<cur>>
  ELSE IF Head(s) = sep
       THEN <<cur>> \o SplitFrom(Tail(s), sep, <<>>)
       ELSE SplitFrom(Tail(s), sep, Append(cur, Head(s)))

\* String#split(sep) for a one-character separator
Split(s, sep) == SplitFrom(s, sep, <<>>)

RECURSIVE Join(_, _)
\* Array#join(sep)
Join(parts, sep) ==
  IF parts = <<>> THEN <<>>
  ELSE IF Len(parts) = 1 THEN parts[1]
       ELSE parts[1] \o <<sep>> \o Join(Tail(parts), sep)

\* filename.replace(/\.ts$/, '')
StripTs(s) == IF EndsWith(s, TsExt) THEN SubSeq(s, 1, Len(s) - Len(TsExt)) ELSE s

\* filename.split('_')[0]
IdOf(filename) == Split(filename, "_")[1]

\* filename.replace(/\.ts$/, '').split('_').slice(1).join('_')
NameOf(filename) == Join(Tail(Split(StripTs(filename), "_")), "_")

RECURSIVE LocaleCompare(_, _)
\* a.localeCompare(b): -1, 0 or 1, character by character
LocaleCompare(a, b) ==
  IF a = <<>> /\ b = <<>> THEN 0
  ELSE IF a = <<>> THEN -1
  ELSE IF b = <<>> THEN 1
  ELSE IF CharRank(Head(a)) < CharRank(Head(b)) THEN -1
  ELSE IF CharRank(Head(a)) > CharRank(Head(b)) THEN 1
  ELSE LocaleCompare(Tail(a), Tail(b))

\* -------------------------------------------------- listing and sorting
SeqToSet(s) == {s[k] : k \in 1..Len(s)}

\* readdirSync returns the entries of a directory in an order the file
\* system chooses: every arrangement of the files is a possible result of
\* listFilesRecursively (the migrations directory has no sub-directories).
ReaddirOrders(files) ==
  {s \in [1..Cardinality(files) -> files] :
     \A j, k \in 1..Cardinality(files) : s[j] = s[k] => j = k}

RECURSIVE SelectTs(_)
\* .filter(file => file.endsWith('.ts'))
SelectTs(list) ==
  IF list = <<>> THEN <<>>
  ELSE (IF EndsWith(Head(list), TsExt) THEN <<Head(list)>> ELSE <<>>)
       \o SelectTs(Tail(list))

\* the object built by .map(file => ({ id, name, filename, path, applied }))
MigrationEntry(filename, ids) ==
  [id |-> IdOf(filename), name |-> NameOf(filename),
   filename |-> filename, applied |-> IdOf(filename) \in ids]

RECURSIVE InsertById(_, _)
InsertById(sorted, m) ==
  IF sorted = <<>> THEN <<m>>
  ELSE IF LocaleCompare(m.id, sorted[Len(sorted)].id) < 0
       THEN Append(InsertById(SubSeq(sorted, 1, Len(sorted) - 1), m),
                   sorted[Len(sorted)])
       ELSE Append(sorted, m)

RECURSIVE SortById(_)
\* .sort((a, b) => a.id.localeCompare(b.id)); Array#sort is stable
SortById(list) ==
  IF list = <<>> THEN <<>>
  ELSE InsertById(SortById(SubSeq(list, 1, Len(list) - 1)), list[Len(list)])

\* migrationFiles of --list and --run, for one order returned by readdir
MigrationFiles(order, ids) ==
  LET files == SelectTs(order) IN
    SortById([k \in 1..Len(files) |-> MigrationEntry(files[k], ids)])

\* a filter that lets every file through
PendingKeepsApplied(list) == list

RECURSIVE Pending(_)
\* migrationFiles.filter(m => !m.applied)
Pending(list) ==
  IF list = <<>> THEN <<>>
  ELSE (IF ~Head(list).applied THEN <<Head(list)>> ELSE <<>>)
       \o Pending(Tail(list))

\* options.force ? migrationFiles : migrationFiles.filter(m => !m.applied)
MigrationsToRun(list, forced) == IF forced THEN list ELSE Pending(list)

\* ------------------------------------------------------------ the state
VARIABLES
  dirExists,        \* the migrations directory exists
  tableExists,      \* the migrations table of argon.db exists
  disk,             \* file names in the migrations directory
  ledger,           \* rows of the migrations table, in insertion order
  clock,            \* wall clock (new Date()), in seconds
  pc,               \* per process: position of the migrate action
  cmd,              \* per process: branch taken by the last invocation
  force,            \* per process: options.force of the run
  appliedIds,       \* per process: the Set read from the ledger
  migrationsToRun,  \* per process: the array the for-loop walks
  idx,              \* per process: position of the for-loop
  exitCode,         \* per process: process.exit status, -1 before exit
  listing,          \* per process: what --list printed
  upCount,          \* history: completed up() calls per file (saturating)
  ran,              \* history, per process: files whose up() was attempted
  failure,          \* history, per process: what made the run stop
  second            \* history, per process: the run began right after a
                    \* run without --force had ended with status 0


procVars == <<pc, cmd, force, appliedIds, migrationsToRun, idx, exitCode,
              listing, ran, failure, second>>

\* the state of `bolt deploy` (one orchestrator process)
VARIABLES
  dpc,              \* position of the deploy action
  deployExit,       \* status of the orchestrator process, -1 while it lives
  deploymentType,   \* 'local', 'domain' or null
  domain,           \* options.domain || config.domain, or the prompt's answer
  sslPath,          \* the certificate directory the listeners are set up with
  apiPort,          \* options.port || config.port || 3000
  webPort,          \* options.webPort || config.webPort || 3001 (local only)
  certFiles,        \* the files present in the certificate directory
  distFiles,        \* regular files of _dist, as request paths
  apiProcess,       \* the backend child: none, running, signalled, exited
  listeners,        \* the servers opened by Bun.serve
  requests,         \* per connection: the request and what became of it
  certConfigured,   \* history: where a certificate path was given, or none
  inputs,           \* options as given and config as loaded, until saveConfig
  produced,         \* what this invocation has written: modules, .env, ...
  fatal,            \* the step at which the command called process.exit(1)
  childPort,        \* PORT in the environment of the backend child
  savedRun,         \* deploy.json as saveConfig wrote it, and what the run
                    \* that wrote it had resolved
  tlsFailure        \* history: what made the HTTPS set-up throw, or none

deployVars == <<dpc, deployExit, deploymentType, domain, sslPath, apiPort,
                webPort, certFiles, distFiles, apiProcess, listeners,
                requests, certConfigured, tlsFailure, inputs, produced, fatal,
                childPort, savedRun>>

migrateVars == <<dirExists, tableExists, disk, ledger, clock, pc, cmd, force,
                 appliedIds, migrationsToRun, idx, exitCode, listing, upCount,
                 ran, failure, second>>

\* the state of the panel's backend: the users repository and the
\* permission middleware
VARIABLES
  users,            \* rows of the users table: id, username, permissions
  projects,         \* rows of the projects table: id, name, userId
  issued,           \* how many values randomUUID() has handed out
  userResult,       \* how the last call of the repository ended
  checked           \* what the permission middleware did with a request

serverVars == <<users, projects, issued, userResult, checked>>

vars == <<migrateVars, deployVars, serverVars>>

\* inputs of the command line
Names == {<<"a">>, <<"a", " ", "b">>}
Unset == <<>>     \* an option that was not given (or is the empty string)
Opt(c, l, r, f) == [create |-> c, list |-> l, run |-> r, force |-> f]
\* each option alone, --run with --force, and --create and --list each
\* combined with all the options that come after them in the action
OptionSets ==
  {Opt(n, b, b, b) : n \in Names, b \in BOOLEAN}
    \cup {Opt(Unset, TRUE, b, b) : b \in BOOLEAN}
    \cup {Opt(Unset, FALSE, r, f) : r, f \in BOOLEAN}
NoForceOptionSets == {o \in OptionSets : ~o.force}

UpOutcomes == {"ok", "throws", "noup"}
InsertOutcomes == {"ok", "ioerror"}

NoListing == [rows |-> <<>>, total |-> 0, applied |-> 0, pending |-> 0]
AllFileNames == {MigrationFileName(t, n) : t \in Times, n \in Names}

LedgerIds(rows) == {rows[k].id : k \in 1..Len(rows)}

\* CREATE TABLE IF NOT EXISTS migrations (id TEXT PRIMARY KEY, ...)
PrimaryKeyConflict(rows, id) == \E k \in 1..Len(rows) : rows[k].id = id

\* an insert that replaces the rows of the same name
LedgerReplaceByName(rows, m, now) ==
  SelectSeq(rows, LAMBDA r : r.name # m.name)
    \o <<[id |-> m.id, name |-> m.name, executed_at |-> now]>>

\* INSERT INTO migrations (id, name, executed_at) VALUES (?, ?, ?)
LedgerInsert(rows, m, now) ==
  Append(rows, [id |-> m.id, name |-> m.name, executed_at |-> now])

\* a record step that never inserts, and one that always inserts
RecordNever(m) == FALSE
RecordAlways(m) == TRUE

\* if (!migration.applied) { db.exec(INSERT ...) }
RecordNeeded(m) == ~m.applied

\* the status given to process.exit after the loop, or with nothing to run
SuccessExitCode == 0
\* a catch block that exits with the status of success
CatchExitsWithSuccess == SuccessExitCode
\* the status given to process.exit when the for-loop body threw
CatchExitCode == 1

Running(p) == pc[p] \in {"up", "insert"}
Idle(p) == ~Running(p)

\* the last invocation of p was a run without --force that ended with 0
CleanRunDone(p) ==
  /\ pc[p] = "done"
  /\ cmd[p] = "run"
  /\ ~force[p]
  /\ exitCode[p] = SuccessExitCode

\* ------------------------------------------- bolt deploy, before it runs
Conns == 1..MaxReq         \* connections a listener handles at a time
NoPort == 0                \* a port option that was not given (falsy)
NoMessage == [status |-> 0]
NoRequest ==
  [stage |-> "free", listener |-> [port |-> NoPort, kind |-> "none"], req |-> NoMessage,
   forwarded |-> NoMessage, backend |-> NoMessage, response |-> NoMessage]

\* nothing of `bolt deploy` has run
\* no invocation holds a command line or a loaded configuration
NoInputs ==
  [given |-> [force |-> FALSE, local |-> FALSE, domain |-> Unset,
              sslPath |-> Unset, port |-> NoPort, webPort |-> NoPort],
   config |-> [domain |-> Unset, sslPath |-> Unset, port |-> NoPort,
               webPort |-> NoPort]]

\* saveConfig has never written deploy.json
NoSavedRun ==
  [config |-> NoInputs.config,
   by |-> [deploymentType |-> "null", domain |-> Unset, sslPath |-> Unset,
           apiPort |-> NoPort, webPort |-> NoPort]]

DeployInit ==
  /\ dpc = "idle"
  /\ deployExit = -1
  /\ deploymentType = "null"
  /\ domain = Unset
  /\ sslPath = Unset
  /\ apiPort = NoPort
  /\ webPort = NoPort
  /\ certFiles = {}
  /\ distFiles = {}
  /\ apiProcess = "none"
  /\ listeners = {}
  /\ requests = [c \in Conns |-> NoRequest]
  /\ certConfigured = "none"
  /\ tlsFailure = "none"
  /\ inputs = NoInputs
  /\ produced = {}
  /\ fatal = "none"
  /\ childPort = NoPort
  /\ savedRun = NoSavedRun

Init ==
  /\ dirExists = FALSE
  /\ tableExists = FALSE
  /\ disk = {}
  /\ ledger = <<>>
  /\ clock = ClockBase
  /\ pc = [p \in Procs |-> "idle"]
  /\ cmd = [p \in Procs |-> "none"]
  /\ force = [p \in Procs |-> FALSE]
  /\ appliedIds = [p \in Procs |-> {}]
  /\ migrationsToRun = [p \in Procs |-> <<>>]
  /\ idx = [p \in Procs |-> 0]
  /\ exitCode = [p \in Procs |-> -1]
  /\ listing = [p \in Procs |-> NoListing]
  /\ upCount = [f \in AllFileNames |-> 0]
  /\ ran = [p \in Procs |-> <<>>]
  /\ failure = [p \in Procs |-> "none"]
  /\ second = [p \in Procs |-> FALSE]
  /\ DeployInit
  /\ users = {}
  /\ projects = {}
  /\ issued = 0
  /\ userResult = [op |-> "none", arg |-> 0, outcome |-> "none",
                   error |-> "", user |-> {}, changed |-> FALSE]
  /\ checked = [permissions |-> {}, required |-> <<>>, status |-> 0,
                next |-> FALSE]

\* A new invocation of `bolt migrate` by process p that ends at once with
\* status `code` after taking branch `branch`.
Invoked(p, branch, code) ==
  /\ pc' = [pc EXCEPT ![p] = "done"]
  /\ cmd' = [cmd EXCEPT ![p] = branch]
  /\ exitCode' = [exitCode EXCEPT ![p] = code]
  /\ force' = [force EXCEPT ![p] = FALSE]
  /\ appliedIds' = [appliedIds EXCEPT ![p] = {}]
  /\ migrationsToRun' = [migrationsToRun EXCEPT ![p] = <<>>]
  /\ idx' = [idx EXCEPT ![p] = 0]
  /\ ran' = [ran EXCEPT ![p] = <<>>]
  /\ failure' = [failure EXCEPT ![p] = "none"]
  /\ second' = [second EXCEPT ![p] = FALSE]

\* mkdir(migrationsDir) throws: process.exit(1) before any branch
MkdirFails(p) ==
  /\ Idle(p)
  /\ ~dirExists
  /\ Invoked(p, "mkdir", 1)
  /\ listing' = [listing EXCEPT ![p] = NoListing]
  /\ UNCHANGED <<dirExists, tableExists, disk, ledger, clock, upCount,
                 deployVars, serverVars>>

\* bolt migrate --create <name>
Create(p, options) ==
  /\ Idle(p)
  /\ options.create # Unset
  /\ LET f == MigrationFileName(clock, options.create) IN
       /\ f \in disk \/ Cardinality(disk) < MaxFiles
       /\ disk' = disk \cup {f}
  /\ dirExists' = TRUE
  /\ Invoked(p, "create", 0)
  /\ listing' = [listing EXCEPT ![p] = NoListing]
  /\ UNCHANGED <<tableExists, ledger, clock, upCount,
                 deployVars, serverVars>>

\* the table printed by --list and its summary line
ListOutput(files, rows) ==
  [rows |-> [k \in 1..Len(files) |->
               [id |-> files[k].id, name |-> files[k].name,
                status |-> IF files[k].applied THEN "Applied" ELSE "Pending"]],
   total |-> Len(files),
   applied |-> Len(rows),
   pending |-> Len(files) - Len(rows)]

\* a --list that queries the migrations table without creating it first:
\* on a database without the table the query throws
ListNeedsTable(p, options) ==
  /\ Idle(p)
  /\ options.create = Unset
  /\ options.list
  /\ dirExists' = TRUE
  /\ IF tableExists
     THEN /\ \E order \in ReaddirOrders(disk) :
               listing' = [listing EXCEPT ![p] =
                 ListOutput(MigrationFiles(order, LedgerIds(ledger)), ledger)]
          /\ Invoked(p, "list", 0)
     ELSE /\ listing' = [listing EXCEPT ![p] = NoListing]
          /\ Invoked(p, "list", 1)
  /\ UNCHANGED <<tableExists, disk, ledger, clock, upCount,
                 deployVars, serverVars>>

\* bolt migrate --list
List(p, options) ==
  /\ Idle(p)
  /\ options.create = Unset
  /\ options.list
  /\ dirExists' = TRUE
  /\ tableExists' = TRUE
  /\ \E order \in ReaddirOrders(disk) :
       listing' = [listing EXCEPT ![p] =
                     ListOutput(MigrationFiles(order, LedgerIds(ledger)), ledger)]
  /\ Invoked(p, "list", 0)
  /\ UNCHANGED <<disk, ledger, clock, upCount,
                 deployVars, serverVars>>

\* bolt migrate with no option: the help hint and process.exit(1)
NoAction(p, options) ==
  /\ Idle(p)
  /\ options.create = Unset
  /\ ~options.list /\ ~options.run /\ ~options.force
  /\ dirExists' = TRUE
  /\ Invoked(p, "help", 1)
  /\ listing' = [listing EXCEPT ![p] = NoListing]
  /\ UNCHANGED <<tableExists, disk, ledger, clock, upCount,
                 deployVars, serverVars>>

\* a run that also follows a --create or a --list of the same invocation
StartRunAfterAnyBranch(p, options) ==
  /\ Idle(p)
  /\ options.run \/ options.force
  /\ dirExists' = TRUE
  /\ tableExists' = TRUE
  /\ \E order \in ReaddirOrders(disk) :
     LET ids == LedgerIds(ledger)
         todo == MigrationsToRun(MigrationFiles(order, ids), options.force)
     IN
       /\ appliedIds' = [appliedIds EXCEPT ![p] = ids]
       /\ migrationsToRun' = [migrationsToRun EXCEPT ![p] = todo]
       /\ IF Len(todo) = 0
          THEN /\ pc' = [pc EXCEPT ![p] = "done"]
               /\ exitCode' = [exitCode EXCEPT ![p] = SuccessExitCode]
               /\ idx' = [idx EXCEPT ![p] = 0]
          ELSE /\ pc' = [pc EXCEPT ![p] = "up"]
               /\ exitCode' = [exitCode EXCEPT ![p] = -1]
               /\ idx' = [idx EXCEPT ![p] = 1]
  /\ cmd' = [cmd EXCEPT ![p] = "run"]
  /\ force' = [force EXCEPT ![p] = options.force]
  /\ listing' = [listing EXCEPT ![p] = NoListing]
  /\ ran' = [ran EXCEPT ![p] = <<>>]
  /\ failure' = [failure EXCEPT ![p] = "none"]
  /\ second' = [second EXCEPT ![p] = CleanRunDone(p) /\ ~options.force]
  /\ UNCHANGED <<disk, ledger, clock, upCount,
                 deployVars, serverVars>>

\* bolt migrate --run / --force, up to the first iteration of the loop:
\* open the database, create the table, read the applied ids, list and
\* sort the files, select the migrations to run; exit 0 if there are none.
StartRun(p, options) ==
  /\ Idle(p)
  /\ options.create = Unset
  /\ ~options.list
  /\ options.run \/ options.force
  /\ dirExists' = TRUE
  /\ tableExists' = TRUE
  /\ \E order \in ReaddirOrders(disk) :
     LET ids == LedgerIds(ledger)
         todo == MigrationsToRun(MigrationFiles(order, ids), options.force)
     IN
       /\ appliedIds' = [appliedIds EXCEPT ![p] = ids]
       /\ migrationsToRun' = [migrationsToRun EXCEPT ![p] = todo]
       /\ IF Len(todo) = 0
          THEN /\ pc' = [pc EXCEPT ![p] = "done"]
               /\ exitCode' = [exitCode EXCEPT ![p] = SuccessExitCode]
               /\ idx' = [idx EXCEPT ![p] = 0]
          ELSE /\ pc' = [pc EXCEPT ![p] = "up"]
               /\ exitCode' = [exitCode EXCEPT ![p] = -1]
               /\ idx' = [idx EXCEPT ![p] = 1]
  /\ cmd' = [cmd EXCEPT ![p] = "run"]
  /\ force' = [force EXCEPT ![p] = options.force]
  /\ listing' = [listing EXCEPT ![p] = NoListing]
  /\ ran' = [ran EXCEPT ![p] = <<>>]
  /\ failure' = [failure EXCEPT ![p] = "none"]
  /\ second' = [second EXCEPT ![p] = CleanRunDone(p) /\ ~options.force]
  /\ UNCHANGED <<disk, ledger, clock, upCount,
                 deployVars, serverVars>>

\* a catch block that reports and goes on with the next migration
AbortAndContinue(p, why) ==
  /\ failure' = [failure EXCEPT ![p] = why]
  /\ IF idx[p] = Len(migrationsToRun[p])
     THEN /\ pc' = [pc EXCEPT ![p] = "done"]
          /\ exitCode' = [exitCode EXCEPT ![p] = CatchExitCode]
          /\ UNCHANGED idx
     ELSE /\ pc' = [pc EXCEPT ![p] = "up"]
          /\ idx' = [idx EXCEPT ![p] = @ + 1]
          /\ UNCHANGED exitCode

\* the catch block of the loop: report and process.exit(1)
Abort(p, why) ==
  /\ pc' = [pc EXCEPT ![p] = "done"]
  /\ exitCode' = [exitCode EXCEPT ![p] = CatchExitCode]
  /\ failure' = [failure EXCEPT ![p] = why]
  /\ UNCHANGED idx

\* first half of a loop iteration: import the file and call up(db).
\* The outcome of up() depends on the file's content and on the schema.
StepUp(p, outcome) ==
  /\ pc[p] = "up"
  /\ LET m == migrationsToRun[p][idx[p]] IN
       /\ ran' = [ran EXCEPT ![p] = Append(@, m.filename)]
       /\ IF outcome = "ok"
          THEN /\ upCount' = [upCount EXCEPT ![m.filename] =
                                IF @ < MaxCount THEN @ + 1 ELSE @]
               /\ pc' = [pc EXCEPT ![p] = "insert"]
               /\ UNCHANGED <<exitCode, failure, idx>>
          ELSE /\ Abort(p, outcome)
               /\ UNCHANGED upCount
  /\ UNCHANGED <<dirExists, tableExists, disk, ledger, clock, cmd, force,
                 appliedIds, migrationsToRun, listing, second,
                 deployVars, serverVars>>

\* the end of a loop iteration: next migration, or exit 0 after the last
NextIteration(p) ==
  IF idx[p] = Len(migrationsToRun[p])
  THEN /\ pc' = [pc EXCEPT ![p] = "done"]
       /\ exitCode' = [exitCode EXCEPT ![p] = SuccessExitCode]
       /\ UNCHANGED <<idx, failure>>
  ELSE /\ pc' = [pc EXCEPT ![p] = "up"]
       /\ idx' = [idx EXCEPT ![p] = @ + 1]
       /\ UNCHANGED <<exitCode, failure>>

\* second half of a loop iteration: record the migration as applied.
\* The INSERT fails on a primary-key conflict, and may fail for a reason
\* outside the program (disk full, database locked).
StepRecord(p, outcome) ==
  /\ pc[p] = "insert"
  /\ LET m == migrationsToRun[p][idx[p]] IN
       IF ~RecordNeeded(m)
       THEN /\ NextIteration(p)
            /\ UNCHANGED ledger
       ELSE IF PrimaryKeyConflict(ledger, m.id)
       THEN /\ Abort(p, "constraint")
            /\ UNCHANGED ledger
       ELSE IF outcome = "ioerror"
       THEN /\ Abort(p, "ioerror")
            /\ UNCHANGED ledger
       ELSE /\ ledger' = LedgerInsert(ledger, m, clock)
            /\ NextIteration(p)
  /\ UNCHANGED <<dirExists, tableExists, disk, clock, cmd, force, appliedIds,
                 migrationsToRun, listing, upCount, ran, second,
                 deployVars, serverVars>>

\* the process is stopped from outside while the loop runs
Kill(p) ==
  /\ Running(p)
  /\ pc' = [pc EXCEPT ![p] = "killed"]
  /\ failure' = [failure EXCEPT ![p] = "killed"]
  /\ UNCHANGED <<dirExists, tableExists, disk, ledger, clock, cmd, force,
                 appliedIds, migrationsToRun, idx, exitCode, listing, upCount,
                 ran, second,
                 deployVars, serverVars>>

\* a second passes
ClockTick ==
  /\ clock < ClockBase + MaxTicks
  /\ clock' = clock + 1
  /\ UNCHANGED <<dirExists, tableExists, disk, ledger, procVars, upCount,
                 deployVars, serverVars>>

\* the wall clock is set back (time synchronisation, an operator)
ClockStepBack ==
  /\ clock > ClockBase
  /\ clock' = clock - 1
  /\ UNCHANGED <<dirExists, tableExists, disk, ledger, procVars, upCount,
                 deployVars, serverVars>>

\* one invocation of `bolt migrate` by process p, with options from opts
Migrate(p, opts) ==
  \/ MkdirFails(p)
  \/ \E options \in opts : Create(p, options)
  \/ \E options \in opts : List(p, options)
  \/ \E options \in opts : NoAction(p, options)
  \/ \E options \in opts : StartRun(p, options)
  \/ \E outcome \in UpOutcomes : StepUp(p, outcome)
  \/ \E outcome \in InsertOutcomes : StepRecord(p, outcome)
  \/ Kill(p)

\* one CLI process at a time
Next ==
  \/ Migrate(1, OptionSets)
  \/ ClockTick
  \/ ClockStepBack

Spec == Init /\ [][Next]_vars

\* the same, with --force never given
NextNoForce ==
  \/ Migrate(1, NoForceOptionSets)
  \/ ClockTick
  \/ ClockStepBack

SpecNoForce == Init /\ [][NextNoForce]_vars

\* the clock never goes backwards
NextSteady ==
  \/ Migrate(1, OptionSets)
  \/ ClockTick

SpecSteady == Init /\ [][NextSteady]_vars

\* two CLI processes on the same directory and database: nothing in the
\* action takes a lock, so the steps of a second `bolt migrate --run`
\* interleave with those of the first process, which creates files of one
\* name, lists and runs
NextOverlap ==
  \/ Migrate(1, {o \in NoForceOptionSets : o.create \in {Unset, <<"a">>}})
  \/ Migrate(2, {Opt(Unset, FALSE, TRUE, FALSE)})
  \/ ClockTick

SpecOverlap == Init /\ [][NextOverlap]_vars

\* ============================================================ bolt deploy

\* ------------------------------------------------ ports and path strings
DefaultApiPort == 3000
DefaultWebPort == 3001
SecurePort == 443
InsecurePort == 80
\* a port given on the command line or saved, other than the defaults
CustomApiPort == DefaultApiPort + 10
CustomWebPort == DefaultWebPort + 10

Slash == <<"/">>
Dot == "."
\* path.startsWith('/api/')
ApiPrefix == <<"/", "a", "p", "i", "/">>
IndexHtml == <<"/", "i", "n", "d", "e", "x", ".", "h", "t", "m", "l">>

StartsWith(s, prefix) ==
  /\ Len(s) >= Len(prefix)
  /\ SubSeq(s, 1, Len(prefix)) = prefix

\* String#includes for a single character
Includes(s, c) == \E k \in 1..Len(s) : s[k] = c

\* a || b of JavaScript, on strings and on port numbers
OrElse(a, b) == IF a # Unset THEN a ELSE b
OrElsePort(a, b) == IF a # NoPort THEN a ELSE b

\* ------------------------------------------------------------ the inputs
\* the requests that clients send
Req(m, p, q, h, b) ==
  [method |-> m, host |-> <<"h">>, path |-> p, query |-> q, headers |-> h,
   body |-> b]
Param(k, v) == [key |-> k, value |-> v]
Requests ==
  { Req("GET", Slash, <<>>, "h1", "none"),
    Req("GET", ApiPrefix \o <<"w">>, <<Param("x", "1")>>, "h1", "none"),
    Req("POST", ApiPrefix \o <<"l">>, <<Param("x", "2"), Param("x", "1")>>,
        "h2", "b1"),
    Req("GET", <<"/", "a", "p", "i">>, <<>>, "h1", "none"),
    Req("GET", <<"/", "d">>, <<Param("x", "1")>>, "h1", "none"),
    Req("GET", <<"/", "m", ".", "p">>, <<>>, "h1", "none"),
    Req("GET", <<"/", "a", ".", "j", "s">>, <<>>, "h1", "none"),
    Req("GET", <<"/", "a", ".", "b", "/", "c">>, <<>>, "h1", "none"),
    Req("GET", <<"/", "s", "/">>, <<>>, "h1", "none") }

\* the static bundles that the build of the single-page application leaves
\* in _dist: index.html, and possibly a script
DistRoots == {{IndexHtml}, {IndexHtml, <<"/", "a", ".", "j", "s">>}}

\* what the backend does with a request that fetch sends to it
BackendOutcomes == {"ok", "error", "redirect", "refused", "reset"}
\* the outcomes with which fetch rejects: no connection, or a connection
\* that is closed before the head of a response has arrived
FetchErrors == {"refused", "reset"}

\* ----------------------------------------------------- the fetch handlers
\* url.searchParams.forEach((value, key) => apiUrl.searchParams.append(...))
RECURSIVE CopySearchParams(_, _)
CopySearchParams(from, to) ==
  IF from = <<>> THEN to
  ELSE CopySearchParams(Tail(from),
                        Append(to, Param(Head(from).key, Head(from).value)))

\* new URL(path, `http://localhost:${apiPort}`) with the copied parameters,
\* and the init object given to fetch
ForwardedRequest(req, port) ==
  [scheme |-> "http", host |-> "localhost", port |-> port,
   path |-> req.path, query |-> CopySearchParams(req.query, <<>>),
   method |-> req.method, headers |-> req.headers, body |-> req.body]

\* the backend's answer to one request; its body names what it answers
BackendResponse(fwd, outcome) ==
  [status |-> IF outcome = "ok" THEN 200
              ELSE IF outcome = "error" THEN 500 ELSE 302,
   headers |-> IF outcome = "redirect" THEN "location" ELSE "plain",
   body |-> [method |-> fwd.method, path |-> fwd.path, query |-> fwd.query,
             outcome |-> outcome]]

\* the request that fetch sends when it follows a redirect (fetch is called
\* without a `redirect` member, so the mode is "follow"): GET of Location
Followed(fwd) ==
  [fwd EXCEPT !.method = "GET", !.path = ApiPrefix \o <<"r">>,
              !.query = <<>>, !.body = "none"]

\* await fetch(apiUrl, { method, headers, body }): the response fetch
\* resolves with
Fetch(fwd, outcome) ==
  IF outcome = "redirect"
  THEN BackendResponse(Followed(fwd), "ok")
  ELSE BackendResponse(fwd, outcome)

\* new Response(apiResponse.body, { status, statusText, headers })
Relay(apiResponse) ==
  [status |-> apiResponse.status, headers |-> apiResponse.headers,
   body |-> apiResponse.body, from |-> "backend"]

\* a catch block that answers with the status of success
BadGatewayAsOk(reason) ==
  [status |-> 200, headers |-> "plain",
   body |-> [error |-> reason], from |-> "proxy"]

\* new Response(`API server error: ${error.message}`, { status: 502 })
BadGateway(reason) ==
  [status |-> 502, headers |-> "plain",
   body |-> [error |-> reason], from |-> "proxy"]

\* new Response(Bun.file(fullPath))
FileResponse(file) ==
  [status |-> 200, headers |-> "plain", body |-> [file |-> file],
   from |-> "static"]

\* new Response('Not Found', { status: 404 })
NotFound ==
  [status |-> 404, headers |-> "plain", body |-> [text |-> "Not Found"],
   from |-> "static"]

\* the handler has forwarded the request and awaits fetch
Forward == [status |-> 0, from |-> "await"]

\* the fetch handler of the local web server, up to its first await
LocalFetch(req, files) ==
  LET path == req.path
      filePath == IF path = Slash
                     \/ (~Includes(path, Dot) /\ ~EndsWith(path, Slash))
                  THEN IndexHtml ELSE path
  IN IF StartsWith(path, ApiPrefix) THEN Forward
     ELSE IF filePath \in files THEN FileResponse(filePath)
     ELSE IF ~Includes(path, Dot) THEN FileResponse(IndexHtml)
     ELSE NotFound

\* the fetch handler of the HTTPS server, up to its first await
HttpsFetch(req, files) ==
  LET path == req.path
      filePath == IF path = Slash
                     \/ (~Includes(path, Dot) /\ ~EndsWith(path, Slash))
                  THEN IndexHtml ELSE path
  IN IF StartsWith(path, ApiPrefix) THEN Forward
     ELSE IF filePath \in files THEN FileResponse(filePath)
     ELSE IF ~Includes(path, Dot) THEN FileResponse(IndexHtml)
     ELSE NotFound

\* a plaintext handler without the fall back to index.html for a path
\* that names no file of _dist
HttpFetchNoFallback(req, files) ==
  LET path == req.path
      filePath == IF path = Slash
                     \/ (~Includes(path, Dot) /\ ~EndsWith(path, Slash))
                  THEN IndexHtml ELSE path
  IN IF StartsWith(path, ApiPrefix) THEN Forward
     ELSE IF filePath \in files THEN FileResponse(filePath)
     ELSE NotFound

\* the fetch handler of setupHttpServer, up to its first await
HttpFetch(req, files) ==
  LET path == req.path
      filePath == IF path = Slash
                     \/ (~Includes(path, Dot) /\ ~EndsWith(path, Slash))
                  THEN IndexHtml ELSE path
  IN IF StartsWith(path, ApiPrefix) THEN Forward
     ELSE IF filePath \in files THEN FileResponse(filePath)
     ELSE IF ~Includes(path, Dot) THEN FileResponse(IndexHtml)
     ELSE NotFound

\* a redirect listener that serves the routing logic of the other servers
RedirectAsHttp(req) == HttpFetch(req, {IndexHtml})

\* the fetch handler of the redirect server: url.protocol = 'https:',
\* url.port = '443', status 301 with Location: url.toString()
Redirect(req) ==
  [status |-> 301,
   headers |-> [Location |-> [scheme |-> "https", host |-> req.host,
                              port |-> SecurePort, path |-> req.path,
                              query |-> req.query]],
   body |-> [text |-> "none"], from |-> "redirect"]

\* the fetch handler that a server of a given kind runs
Handler(kind, req, files) ==
  CASE kind = "local" -> LocalFetch(req, files)
    [] kind = "https" -> HttpsFetch(req, files)
    [] kind = "http" -> HttpFetch(req, files)
    [] OTHER -> Redirect(req)

Listener(port, kind) == [port |-> port, kind |-> kind]

\* ------------------------------------------------- the deploy command line
DeployOpt(f, l, d, s, p, w) ==
  [force |-> f, local |-> l, domain |-> d, sslPath |-> s, port |-> p,
   webPort |-> w]
\* the domains and the certificate directories that may be named
DomainNames == {<<"d">>}
CertPaths == {<<"c">>}
DeployOptionSets ==
  {DeployOpt(f, l, d, s, p, w) :
     f \in BOOLEAN, l \in BOOLEAN, d \in {Unset} \cup DomainNames,
     s \in {Unset} \cup CertPaths, p \in {NoPort, CustomApiPort},
     w \in {NoPort, CustomWebPort}}

\* the saved configuration (deploy.json); without the file, or after a
\* failed JSON.parse, every member is missing
Saved(d, s, p, w) == [domain |-> d, sslPath |-> s, port |-> p, webPort |-> w]
NoConfig == Saved(Unset, Unset, NoPort, NoPort)
\* the values of a saved configuration differ from those of the options
SavedConfigs ==
  {Saved(d, s, p, w) :
     d \in {Unset, <<"e">>}, s \in {Unset, <<"s">>},
     p \in {NoPort, CustomApiPort + 1}, w \in {NoPort, CustomWebPort + 1}}

\* what the operator answers at the prompts of inquirer
Answers ==
  [deployment : {"local", "domain"}, domainAnswer : DomainNames,
   sslConfirm : BOOLEAN, sslPathAnswer : CertPaths]

\* the certificate directory: "." is the directory itself
PrivKey == "privkey.pem"
FullChain == "fullchain.pem"
CertDirs == {{}} \cup {{"."} \cup fs : fs \in SUBSET {PrivKey, FullChain}}

\* a merge in which the saved configuration overrides the command line
MergeConfigFirst(config, options) ==
  [force |-> options.force, local |-> options.local,
   domain |-> OrElse(config.domain, options.domain),
   sslPath |-> OrElse(config.sslPath, options.sslPath),
   port |-> OrElsePort(config.port, options.port),
   webPort |-> OrElsePort(config.webPort, options.webPort)]

\* options = { ...config, ...options }
Merge(config, options) ==
  [force |-> options.force, local |-> options.local,
   domain |-> OrElse(options.domain, config.domain),
   sslPath |-> OrElse(options.sslPath, config.sslPath),
   port |-> OrElsePort(options.port, config.port),
   webPort |-> OrElsePort(options.webPort, config.webPort)]

\* options.local ? 'local' : (options.domain ? 'domain' : null), and the
\* prompt when that is null and --force was not given
DeploymentType(options, answers) ==
  IF options.local THEN "local"
  ELSE IF options.domain # Unset THEN "domain"
  ELSE IF ~options.force THEN answers.deployment
  ELSE "null"

\* the domain of a deployment that is not local
Domain(options, config, answers) ==
  IF OrElse(options.domain, config.domain) # Unset
  THEN OrElse(options.domain, config.domain)
  ELSE IF ~options.force THEN answers.domainAnswer
  ELSE Unset

\* the prompt for a certificate path is shown
SslPrompted(options, config) ==
  OrElse(options.sslPath, config.sslPath) = Unset /\ ~options.force

\* sslPath of a deployment that is not local
SslPath(options, config, answers) ==
  IF SslPrompted(options, config)
  THEN (IF answers.sslConfirm THEN answers.sslPathAnswer ELSE Unset)
  ELSE OrElse(options.sslPath, config.sslPath)

\* the checks of the certificate directory let the deployment go on
SslChecked(options, config, files) ==
  \/ SslPrompted(options, config)
  \/ OrElse(options.sslPath, config.sslPath) = Unset
  \/ {".", PrivKey, FullChain} \subseteq files

\* where the certificate path of this invocation was given
CertSource(given, config, type, answers) ==
  IF given.sslPath # Unset THEN "option"
  ELSE IF config.sslPath # Unset THEN "config"
  ELSE IF type # "local" /\ ~given.force /\ answers.sslConfirm THEN "prompt"
  ELSE "none"

\* ------------------------------------------------------ the deploy action
\* the connections that the end of the process cuts off
CutOff ==
  [c \in Conns |->
     IF requests[c].stage = "proxying"
     THEN [requests[c] EXCEPT !.stage = "cut"]
     ELSE requests[c]]

\* the status given to process.exit on a fatal error, which is also the
\* status of a process that ends on an uncaught exception
FatalExitCode == 1
\* the status that cleanup gives to process.exit
CleanupExitCode == 0

\* the orchestrator process ends with a status: the operating system
\* closes its listeners and its connections
ProcessExit(code) ==
  /\ dpc' = "exited"
  /\ deployExit' = code
  /\ listeners' = {}
  /\ requests' = CutOff

\* a variant that writes .env before it checks the certificate directory
ArtefactsEnvFirst(reached, save) ==
  IF reached \in {"noui", "install"} THEN {}
  ELSE IF reached \in {"certs", "env"} THEN {"modules", "env"}
  ELSE IF reached = "build" THEN {"modules", "env"}
  ELSE IF reached = "copy" THEN {"modules", "env", "build"}
  ELSE {"modules", "env", "build", "dist"}
         \cup (IF save THEN {"config"} ELSE {})

\* what the command has written when it stops at a step (or, with "ok",
\* when it goes on to spawn the backend), in the order of the code: bun
\* install, the certificate checks, .env, bun run build, the copy to _dist,
\* saveConfig
Artefacts(reached, save) ==
  IF reached \in {"noui", "install"} THEN {}
  ELSE IF reached \in {"certs", "env"} THEN {"modules"}
  ELSE IF reached = "build" THEN {"modules", "env"}
  ELSE IF reached = "copy" THEN {"modules", "env", "build"}
  ELSE {"modules", "env", "build", "dist"}
         \cup (IF save THEN {"config"} ELSE {})

\* a new orchestrator process: it has no status, no server, no connection
NewProcess ==
  /\ deployExit' = -1
  /\ listeners' = {}
  /\ requests' = [c \in Conns |-> NoRequest]
  /\ fatal' = "none"

\* const config = { port: apiPort, webPort, domain: deploymentType ===
\* 'domain' ? options.domain : undefined, sslPath, uiPath }, as
\* JSON.stringify writes it and JSON.parse reads it: a member that is
\* undefined is left out
SaveConfig(type, options) ==
  Saved(IF type = "domain" THEN options.domain ELSE Unset, sslPath, apiPort,
        webPort)

\* bolt deploy, up to the .env file: load and merge the configuration,
\* find argon-ui and install its modules, resolve the deployment type, the
\* ports, the domain and the certificate path
Configure(given, config, answers, files, setup) ==
  /\ dpc \in {"idle", "exited", "killed"}
  /\ LET options == Merge(config, given)
         type == DeploymentType(options, answers)
         source == IF setup = "ok"
                   THEN CertSource(given, config, type, answers)
                   ELSE CertSource(given, config, "local", answers)
     IN
       /\ source = "none" => files = {}
       /\ source = "prompt" => "." \in files
       /\ certConfigured' = source
       /\ certFiles' = files
       /\ IF setup # "ok"
          THEN /\ ProcessExit(FatalExitCode)
               /\ fatal' = setup
               /\ produced' = Artefacts(setup, FALSE)
               /\ UNCHANGED <<deploymentType, domain, sslPath, apiPort,
                              webPort, inputs>>
          ELSE /\ deploymentType' = type
               /\ produced' = Artefacts("certs", FALSE)
               /\ apiPort' = OrElsePort(options.port,
                                        OrElsePort(config.port, DefaultApiPort))
               /\ IF type = "local"
                  THEN /\ webPort' = OrElsePort(options.webPort,
                                        OrElsePort(config.webPort, DefaultWebPort))
                       /\ domain' = Unset
                       /\ sslPath' = Unset
                       /\ dpc' = "configured"
                       /\ inputs' = [given |-> given, config |-> config]
                       /\ NewProcess
                  ELSE /\ webPort' = NoPort
                       /\ domain' = Domain(options, config, answers)
                       /\ sslPath' = SslPath(options, config, answers)
                       /\ IF SslChecked(options, config, files)
                          THEN /\ dpc' = "configured"
                               /\ inputs' = [given |-> given,
                                             config |-> config]
                               /\ NewProcess
                          ELSE /\ ProcessExit(FatalExitCode)
                               /\ fatal' = "certs"
                               /\ UNCHANGED inputs
  /\ apiProcess' = "none"
  /\ childPort' = NoPort
  /\ tlsFailure' = "none"
  /\ UNCHANGED <<distFiles, savedRun, migrateVars, serverVars>>

\* write .env, build argon-ui, copy dist to _dist, save the configuration
\* (with --force, or when the operator confirms); each step that fails
\* ends the command with process.exit(1).  options is not read after
\* saveConfig.
Build(outcome, root, saveConfigConfirm) ==
  /\ dpc = "configured"
  /\ produced' = Artefacts(outcome, inputs.given.force \/ saveConfigConfirm)
  /\ inputs' = NoInputs
  /\ IF outcome = "ok"
     THEN /\ dpc' = "built"
          /\ distFiles' = root
          /\ savedRun' =
               IF inputs.given.force \/ saveConfigConfirm
               THEN [config |-> SaveConfig(deploymentType,
                                           Merge(inputs.config, inputs.given)),
                     by |-> [deploymentType |-> deploymentType,
                             domain |-> domain, sslPath |-> sslPath,
                             apiPort |-> apiPort, webPort |-> webPort]]
               ELSE savedRun
          /\ UNCHANGED <<deployExit, listeners, requests, fatal>>
     ELSE /\ ProcessExit(FatalExitCode)
          /\ fatal' = outcome
          /\ UNCHANGED <<distFiles, savedRun>>
  /\ UNCHANGED <<deploymentType, domain, sslPath, apiPort, webPort, certFiles,
                 apiProcess, certConfigured, tlsFailure, childPort,
                 migrateVars, serverVars>>

\* a spawn that leaves PORT out of the environment: the backend listens on
\* its default port
SpawnWithoutPort ==
  /\ dpc = "built"
  /\ dpc' = "spawned"
  /\ apiProcess' = "running"
  /\ childPort' = DefaultApiPort
  /\ UNCHANGED <<deployExit, deploymentType, domain, sslPath, apiPort, webPort,
                 certFiles, distFiles, listeners, requests, certConfigured,
                 tlsFailure, inputs, produced, fatal, savedRun, migrateVars, serverVars>>

\* const apiProcess = spawn('bun', ['run', 'start'], { env: { PORT } })
Spawn ==
  /\ dpc = "built"
  /\ dpc' = "spawned"
  /\ apiProcess' = "running"
  /\ childPort' = apiPort
  /\ UNCHANGED <<deployExit, deploymentType, domain, sslPath, apiPort, webPort,
                 certFiles, distFiles, listeners, requests, certConfigured,
                 tlsFailure, inputs, produced, fatal, savedRun, migrateVars, serverVars>>

\* what makes the try block of the HTTPS set-up throw, if anything:
\* readFileSync of a missing file, Bun.serve with a key it cannot use,
\* Bun.serve on a port that cannot be bound
TlsFailure(files, keyOk, busy) ==
  IF ~({PrivKey, FullChain} \subseteq files) THEN "missing"
  ELSE IF ~keyOk THEN "badkey"
  ELSE IF SecurePort \in busy THEN "port443"
  ELSE IF InsecurePort \in busy THEN "port80"
  ELSE "none"

\* the servers that the try block has opened when it ends or throws
TlsListeners(why) ==
  IF why = "none"
  THEN {Listener(SecurePort, "https"), Listener(InsecurePort, "redirect")}
  ELSE IF why = "port80" THEN {Listener(SecurePort, "https")}
  ELSE {}

\* a Bun.serve that binds the default web port whatever port it is given
ServeOnDefaultPort(opened, port, kind, busy) ==
  /\ listeners' = opened \cup {Listener(DefaultWebPort, kind)}
  /\ dpc' = "listening"
  /\ UNCHANGED <<deployExit, requests, fatal>>

\* Bun.serve({ port, fetch }): the server is added, or Bun.serve throws,
\* nothing catches it and the process ends
Serve(opened, port, kind, busy) ==
  IF port \in busy
  THEN /\ ProcessExit(FatalExitCode)
       /\ fatal' = "listen"
  ELSE /\ listeners' = opened \cup {Listener(port, kind)}
       /\ dpc' = "listening"
       /\ UNCHANGED <<deployExit, requests, fatal>>

\* start the web server: the local server, or the HTTPS server with its
\* redirect server and the fall back to setupHttpServer, or setupHttpServer
Listen(busy, keyOk) ==
  /\ dpc = "spawned"
  /\ IF deploymentType = "local"
     THEN /\ Serve({}, webPort, "local", busy)
          /\ UNCHANGED tlsFailure
     ELSE IF sslPath # Unset
     THEN LET why == TlsFailure(certFiles, keyOk, busy) IN
            /\ tlsFailure' = why
            /\ IF why = "none"
               THEN /\ listeners' = TlsListeners(why)
                    /\ dpc' = "listening"
                    /\ UNCHANGED <<deployExit, requests, fatal>>
               ELSE Serve(TlsListeners(why), InsecurePort, "http", busy)
     ELSE /\ Serve({}, InsecurePort, "http", busy)
          /\ UNCHANGED tlsFailure
  /\ UNCHANGED <<deploymentType, domain, sslPath, apiPort, webPort, certFiles,
                 distFiles, apiProcess, certConfigured, inputs, produced,
                 childPort, savedRun, migrateVars, serverVars>>

\* process.on('SIGINT', cleanup); process.on('SIGTERM', cleanup);
\* await new Promise(() => {})
InstallHandlers ==
  /\ dpc = "listening"
  /\ dpc' = "serving"
  /\ UNCHANGED <<deployExit, deploymentType, domain, sslPath, apiPort, webPort,
                 certFiles, distFiles, apiProcess, listeners, requests,
                 certConfigured, tlsFailure, inputs, produced, fatal,
                 childPort, savedRun, migrateVars, serverVars>>

\* if (apiProcess && !apiProcess.killed) apiProcess.kill(): the child is
\* sent SIGTERM; kill() does not wait for it
KillChild(child) == IF child = "running" THEN "signalled" ELSE child

\* SIGINT or SIGTERM reaches the orchestrator.  With the handlers
\* registered, cleanup runs: it kills the child and calls process.exit(0).
\* Before that the signal has its default disposition and ends the process.
Signal(sig) ==
  /\ dpc \notin {"idle", "exited", "killed"}
  /\ IF dpc = "serving"
     THEN /\ apiProcess' = KillChild(apiProcess)
          /\ ProcessExit(CleanupExitCode)
     ELSE /\ dpc' = "killed"
          /\ listeners' = {}
          /\ requests' = CutOff
          /\ UNCHANGED <<apiProcess, deployExit>>
  /\ inputs' = NoInputs
  /\ UNCHANGED <<deploymentType, domain, sslPath, apiPort, webPort, certFiles,
                 distFiles, certConfigured, tlsFailure, produced, fatal,
                 childPort, savedRun, migrateVars, serverVars>>

\* a supervisor that starts the backend again when it has ended
ChildExitsAndRespawns ==
  /\ apiProcess \in {"running", "signalled", "exited"}
  /\ apiProcess' = IF apiProcess = "exited" THEN "running" ELSE "exited"
  /\ UNCHANGED <<dpc, deployExit, deploymentType, domain, sslPath, apiPort,
                 webPort, certFiles, distFiles, listeners, requests,
                 certConfigured, tlsFailure, inputs, produced, fatal,
                 childPort, savedRun, migrateVars, serverVars>>

\* the backend child ends: by itself, or on the SIGTERM it was sent
ChildExits ==
  /\ apiProcess \in {"running", "signalled"}
  /\ apiProcess' = "exited"
  /\ UNCHANGED <<dpc, deployExit, deploymentType, domain, sslPath, apiPort,
                 webPort, certFiles, distFiles, listeners, requests,
                 certConfigured, tlsFailure, inputs, produced, fatal,
                 childPort, savedRun, migrateVars, serverVars>>

\* a listener takes a request on connection c and runs its fetch handler up
\* to the first await: an API request is forwarded to the backend, any
\* other request is answered at once
Accept(c, l, req) ==
  /\ dpc = "serving"
  /\ l \in listeners
  /\ requests[c].stage \in {"free", "done"}
  /\ LET answer == Handler(l.kind, req, distFiles) IN
       requests' = [requests EXCEPT ![c] =
         IF answer = Forward
         THEN [stage |-> "proxying", listener |-> l, req |-> req,
               forwarded |-> ForwardedRequest(req, apiPort),
               backend |-> NoMessage, response |-> NoMessage]
         ELSE [stage |-> "done", listener |-> l, req |-> req,
               forwarded |-> NoMessage, backend |-> NoMessage,
               response |-> answer]]
  /\ UNCHANGED <<dpc, deployExit, deploymentType, domain, sslPath, apiPort,
                 webPort, certFiles, distFiles, apiProcess, listeners,
                 certConfigured, tlsFailure, inputs, produced, fatal,
                 childPort, savedRun, migrateVars, serverVars>>

\* handlers that keep the URL to fetch in a variable they share: the
\* response is the one for the request of another waiting connection
BackendRespondsShared(c, outcome) ==
  /\ requests[c].stage = "proxying"
  /\ apiProcess # "running" => outcome = "refused"
  /\ LET r == requests[c]
         others == {d \in Conns \ {c} : requests[d].stage = "proxying"}
         url == IF others = {} THEN r.forwarded
                ELSE requests[CHOOSE d \in others : TRUE].forwarded
     IN
       requests' = [requests EXCEPT ![c] =
         IF outcome \in FetchErrors
         THEN [r EXCEPT !.stage = "done",
                        !.backend = [status |-> 0, error |-> outcome],
                        !.response = BadGateway(outcome)]
         ELSE [r EXCEPT !.stage = "done",
                        !.backend = BackendResponse(url, outcome),
                        !.response = Relay(Fetch(url, outcome))]]
  /\ UNCHANGED <<dpc, deployExit, deploymentType, domain, sslPath, apiPort,
                 webPort, certFiles, distFiles, apiProcess, listeners,
                 certConfigured, tlsFailure, inputs, produced, fatal,
                 childPort, savedRun, migrateVars, serverVars>>

\* the await of fetch ends: with the backend's response, which is relayed,
\* or with an error, which the catch block turns into a 502.  Nothing
\* answers on the API port unless the backend child runs.
BackendResponds(c, outcome) ==
  /\ requests[c].stage = "proxying"
  /\ apiProcess # "running" => outcome = "refused"
  /\ LET r == requests[c] IN
       requests' = [requests EXCEPT ![c] =
         IF outcome \in FetchErrors
         THEN [r EXCEPT !.stage = "done",
                        !.backend = [status |-> 0, error |-> outcome],
                        !.response = BadGateway(outcome)]
         ELSE [r EXCEPT !.stage = "done",
                        !.backend = BackendResponse(r.forwarded, outcome),
                        !.response = Relay(Fetch(r.forwarded, outcome))]]
  /\ UNCHANGED <<dpc, deployExit, deploymentType, domain, sslPath, apiPort,
                 webPort, certFiles, distFiles, apiProcess, listeners,
                 certConfigured, tlsFailure, inputs, produced, fatal,
                 childPort, savedRun, migrateVars, serverVars>>

\* the ports that a deployment binds; others may hold any of them
BindPorts == {InsecurePort, SecurePort, DefaultWebPort, CustomWebPort}

\* one invocation of `bolt deploy` and the life of its servers
Deploy(opts, configs, reqs, conns) ==
  \/ /\ dpc = "idle"
     /\ \E given \in opts, config \in configs, answers \in Answers,
           files \in CertDirs, setup \in {"ok", "noui", "install"} :
          Configure(given, config, answers, files, setup)
  \/ \E outcome \in {"ok", "env", "build", "copy"}, root \in DistRoots,
        saveConfigConfirm \in BOOLEAN :
       Build(outcome, root, saveConfigConfirm)
  \/ Spawn
  \/ \E busy \in SUBSET BindPorts, keyOk \in BOOLEAN : Listen(busy, keyOk)
  \/ InstallHandlers
  \/ \E sig \in {"SIGINT", "SIGTERM"} : Signal(sig)
  \/ ChildExits
  \/ /\ dpc = "serving"
     /\ \E c \in conns, l \in listeners, req \in reqs : Accept(c, l, req)
  \/ \E c \in Conns, outcome \in BackendOutcomes : BackendResponds(c, outcome)

\* every command line and saved configuration, one connection at a time
NextDeploy == Deploy(DeployOptionSets, SavedConfigs, Requests, {1})

SpecDeploy == Init /\ [][NextDeploy]_vars

\* SpecDeploy with the progress that the code itself makes: spawn and the
\* Bun.serve calls are synchronous statements that follow each other, and
\* a connection to a port where no backend runs is refused, so that fetch
\* rejects.  No timer, AbortSignal or timeout option is passed to fetch:
\* nothing but the backend ends the wait for a backend that runs.
SpecDeployFair ==
  /\ SpecDeploy
  /\ WF_vars(Spawn)
  /\ WF_vars(\E busy \in SUBSET BindPorts, keyOk \in BOOLEAN :
               Listen(busy, keyOk))
  /\ WF_vars(InstallHandlers)
  /\ WF_vars(apiProcess # "running"
               /\ \E c \in Conns : BackendResponds(c, "refused"))

\* invocations that follow each other: when the orchestrator of a run has
\* ended, a later `bolt deploy` without --local, --domain, --ssl-path,
\* --port and --web-port loads the deploy.json that saveConfig wrote
SpecRoundTrip ==
  /\ Init
  /\ [][\/ (/\ dpc = "idle"
           /\ \E given \in DeployOptionSets, config \in SavedConfigs,
                 answers \in Answers, files \in CertDirs,
                 setup \in {"ok", "noui", "install"} :
                Configure(given, config, answers, files, setup))
       \/ (/\ dpc \in {"exited", "killed"}
           /\ savedRun # NoSavedRun
           /\ \E f \in BOOLEAN, answers \in Answers, files \in CertDirs,
                 setup \in {"ok", "noui", "install"} :
                Configure(DeployOpt(f, FALSE, Unset, Unset, NoPort, NoPort),
                          savedRun.config, answers, files, setup))
       \/ (\E outcome \in {"ok", "env", "build", "copy"},
              root \in DistRoots, saveConfigConfirm \in BOOLEAN :
             Build(outcome, root, saveConfigConfirm))
       \/ Spawn
       \/ (\E busy \in SUBSET BindPorts, keyOk \in BOOLEAN :
             Listen(busy, keyOk))
       \/ InstallHandlers
       \/ (\E sig \in {"SIGINT", "SIGTERM"} : Signal(sig))
       \/ ChildExits]_vars

\* --force with the default ports and no saved configuration, and all the
\* connections
ServeOptionSets ==
  {o \in DeployOptionSets : o.force /\ o.port = NoPort /\ o.webPort = NoPort}

NextServe == Deploy(ServeOptionSets, {NoConfig}, Requests, Conns)

SpecServe == Init /\ [][NextServe]_vars

\* ---------------------------------------------------- shared vocabulary
DiskIds == {IdOf(f) : f \in disk}
DistinctIds == \A f, g \in disk : f # g => IdOf(f) # IdOf(g)
IdBefore(a, b) == LocaleCompare(a, b) < 0
RowsFor(id) == {k \in 1..Len(ledger) : ledger[k].id = id}
OnceInLedger(id) == Cardinality(RowsFor(id)) = 1
\* the ledger holds the row of this very unit (its id and its name)
HasRow(m) ==
  \E k \in 1..Len(ledger) : ledger[k].id = m.id /\ ledger[k].name = m.name
\* the unit counts as recorded for the run of p: its id was in the ledger
\* when the run began, or the run has written its row
Recorded(m) == m.applied \/ HasRow(m)
FileNamesOf(list) == [k \in 1..Len(list) |-> list[k].filename]
UpFailures == {"throws", "noup"}
\* the files whose up() returned in the run of p
Executed(p) ==
  IF failure[p] \in UpFailures
  THEN SubSeq(ran[p], 1, Len(ran[p]) - 1)
  ELSE ran[p]
RunOf(p) == cmd[p] = "run"
Finished(p) == pc[p] = "done"

\* ------------------------------------------------------------- the claims

\* C1: a run without --force over files with pairwise different ids, begun
\* with a ledger whose ids are ids of those files, calls up() only for the
\* files whose id was absent from the ledger, in strictly ascending id
\* order and never skipping a pending file of smaller id; when it ends
\* with status 0 it has called up() for every such file and the ledger
\* holds the id of every file exactly once.
C1_RunAppliesPendingInOrder ==
  \A p \in Procs :
    (RunOf(p) /\ ~force[p] /\ DistinctIds /\ appliedIds[p] \subseteq DiskIds) =>
      LET pend == {f \in disk : IdOf(f) \notin appliedIds[p]}
          done == SeqToSet(ran[p])
      IN
        /\ done \subseteq pend
        /\ \A j, k \in 1..Len(ran[p]) :
             j < k => IdBefore(IdOf(ran[p][j]), IdOf(ran[p][k]))
        /\ \A f \in pend \ done : \A g \in done : IdBefore(IdOf(g), IdOf(f))
        /\ (Finished(p) /\ exitCode[p] = 0) =>
             /\ done = pend
             /\ \A f \in disk : OnceInLedger(IdOf(f))

\* two pending units were applied, in order, and the run ended with 0
C1_Witness ==
  /\ RunOf(1) /\ ~force[1] /\ DistinctIds
  /\ Finished(1) /\ exitCode[1] = 0
  /\ Len(ran[1]) = 2

\* C2: when up() of the k-th migration of a run without --force fails
\* (it throws, or the module has no up function), the run has ended with
\* a status other than 0, up() was attempted for the first k migrations
\* and for no later one, the ledger holds the rows of migrations 1..k-1
\* and no row of migration k, and the run wrote k-1 rows in all.
C2_FailFast ==
  \A p \in Procs :
    (RunOf(p) /\ ~force[p] /\ failure[p] \in UpFailures) =>
      LET k == idx[p]
          todo == migrationsToRun[p]
      IN
        /\ Finished(p)
        /\ exitCode[p] # 0
        /\ ran[p] = FileNamesOf(SubSeq(todo, 1, k))
        /\ \A j \in 1..(k - 1) : HasRow(todo[j])
        /\ ~HasRow(todo[k])
        /\ Len(ledger) = Cardinality(appliedIds[p]) + (k - 1)

\* the first of two pending migrations failed
C2_Witness ==
  /\ RunOf(1) /\ ~force[1] /\ failure[1] \in UpFailures
  /\ idx[1] = 1
  /\ Len(migrationsToRun[1]) = 2

\* C3: a run without --force that begins right after a run without
\* --force ended with status 0 ends at once with status 0: it attempts no
\* up(), and the step that starts it changes neither the ledger nor the
\* effects of the migrations.
C3_Idempotent ==
  [][\A p \in Procs :
       second'[p] =>
         /\ pc'[p] = "done"
         /\ exitCode'[p] = 0
         /\ ran'[p] = <<>>
         /\ ledger' = ledger
         /\ upCount' = upCount]_vars

\* a second run after a run that recorded a migration
C3_Witness ==
  /\ second[1]
  /\ Finished(1)
  /\ ledger # <<>>

\* C4: whenever no run is in the middle of a loop iteration (it has
\* finished, has failed or was stopped), a file's up() has taken effect
\* exactly when the ledger holds one row with the file's id.
C4_ApplyIsAtomic ==
  (\A p \in Procs : ~Running(p)) =>
    \A f \in disk : (upCount[f] > 0) <=> OnceInLedger(IdOf(f))

\* C5: when --force is never given, up() of a file completes at most once.
C5_UpCompletesAtMostOnce ==
  \A f \in disk : upCount[f] <= 1

\* C6: two different migration files never have the same id.
C6_IdsAreUnique ==
  \A f \in disk : \A g \in disk \ {f} : IdOf(f) # IdOf(g)

\* C7: with a clock that never goes backwards, right after --create the
\* list of migrations, for every order in which the directory is read,
\* holds the new file and every file that was there before, and the new
\* file is the last of the list.
C7_CreateThenList ==
  [][\A f \in disk' \ disk :
       \A order \in ReaddirOrders(disk') :
         LET files == MigrationFiles(order, LedgerIds(ledger')) IN
           /\ SeqToSet(FileNamesOf(files)) = disk'
           /\ files[Len(files)].filename = f]_vars

\* C8: a run with --force selects every file on disk, sorted by ascending
\* id, and attempts up() in that order; the record step of a migration
\* that was already in the ledger never fails; when the run ends with
\* status 0 it has called up() for every file and the ledger holds the id
\* of every file exactly once.
C8_ForceRunsAll ==
  \A p \in Procs :
    (RunOf(p) /\ force[p]) =>
      LET todo == migrationsToRun[p] IN
        /\ SeqToSet(FileNamesOf(todo)) = disk
        /\ Len(todo) = Cardinality(disk)
        /\ \A j, k \in 1..Len(todo) :
             j < k => ~IdBefore(todo[k].id, todo[j].id)
        /\ ran[p] = FileNamesOf(SubSeq(todo, 1, Len(ran[p])))
        /\ failure[p] \in {"constraint", "ioerror"} => ~todo[idx[p]].applied
        /\ (Finished(p) /\ exitCode[p] = 0) =>
             /\ Len(ran[p]) = Len(todo)
             /\ \A f \in disk : OnceInLedger(IdOf(f))

\* a forced run ended with 0 after running a recorded and a new migration
C8_Witness ==
  /\ RunOf(1) /\ force[1]
  /\ Finished(1) /\ exitCode[1] = 0
  /\ \E j, k \in 1..Len(migrationsToRun[1]) :
       migrationsToRun[1][j].applied /\ ~migrationsToRun[1][k].applied

\* C9: every step keeps every row of the ledger, with its id, name and
\* executed_at, at its place: rows are only added at the end.
C9_LedgerAppendOnly ==
  [][/\ Len(ledger') >= Len(ledger)
     /\ \A k \in 1..Len(ledger) : ledger'[k] = ledger[k]]_vars

\* a run recorded a migration and then failed on the next one
C9_Witness ==
  /\ RunOf(1) /\ Finished(1)
  /\ failure[1] # "none"
  /\ idx[1] = 2
  /\ HasRow(migrationsToRun[1][1])
  /\ ~migrationsToRun[1][1].applied

\* C10: a finished run has status 0 exactly when up() returned for every
\* migration it selected and each of them is recorded (none was selected
\* included); its status is not 0 when an up() or a ledger insert failed.
C10_ExitStatus ==
  \A p \in Procs :
    (RunOf(p) /\ Finished(p)) =>
      LET todo == migrationsToRun[p] IN
        /\ exitCode[p] = 0 <=>
             \A k \in 1..Len(todo) :
               /\ todo[k].filename \in SeqToSet(Executed(p))
               /\ Recorded(todo[k])
        /\ failure[p] # "none" => exitCode[p] # 0

\* a run whose ledger insert failed has ended with a status other than 0
C10_Witness ==
  /\ RunOf(1) /\ Finished(1)
  /\ failure[1] \in {"constraint", "ioerror"}
  /\ exitCode[1] # 0

\* ------------------------------------------- vocabulary of the deployment
\* the part of a path after its last "/"
LastSegment(path) ==
  LET slashes == {k \in 1..Len(path) : path[k] = "/"}
      last == IF slashes = {} THEN 0
              ELSE CHOOSE k \in slashes : \A j \in slashes : j <= k
  IN SubSeq(path, last + 1, Len(path))
\* the file that a path names has an extension
HasFileExtension(path) == Includes(LastSegment(path), Dot)
\* the connection holds a request taken by a server with the routing logic
Routed(c) ==
  /\ requests[c].stage # "free"
  /\ requests[c].listener.kind \in {"local", "https", "http"}
IsApiRequest(c) == StartsWith(requests[c].req.path, ApiPrefix)
Answered(c) == requests[c].stage = "done"

\* ------------------------------------------------- claims on the deployment

\* C11: every request whose path starts with the API prefix, taken by a
\* server with the routing logic, is forwarded to http://localhost:<apiPort>
\* with the same method, path, headers, body and query parameters, is
\* never answered from the static bundle, and when the backend answered
\* it the client receives the backend's status, headers and body.
C11_ProxyIsTransparent ==
  \A c \in Conns :
    (Routed(c) /\ IsApiRequest(c)) =>
      LET r == requests[c] IN
        /\ r.forwarded =
             [scheme |-> "http", host |-> "localhost", port |-> apiPort,
              path |-> r.req.path, query |-> r.req.query,
              method |-> r.req.method, headers |-> r.req.headers,
              body |-> r.req.body]
        /\ Answered(c) => r.response.from # "static"
        /\ (Answered(c) /\ r.backend.status # 0) =>
             /\ r.response.status = r.backend.status
             /\ r.response.headers = r.backend.headers
             /\ r.response.body = r.backend.body

\* C12: for every answered request that is not an API request: if the
\* resolved path (/index.html for "/" and for a path without a file
\* extension that does not end in "/") is a regular file of the static
\* root, that file is returned with status 200; otherwise, if the path
\* has no file extension, /index.html is returned with status 200;
\* otherwise the response is 404.
C12_StaticResolution ==
  \A c \in Conns :
    (Routed(c) /\ ~IsApiRequest(c) /\ Answered(c)) =>
      LET path == requests[c].req.path
          resolved ==
            IF path = Slash
               \/ (~HasFileExtension(path) /\ ~EndsWith(path, Slash))
            THEN IndexHtml ELSE path
          response == requests[c].response
      IN
        IF resolved \in distFiles
        THEN response.status = 200 /\ response.body = [file |-> resolved]
        ELSE IF ~HasFileExtension(path)
        THEN response.status = 200 /\ response.body = [file |-> IndexHtml]
        ELSE response.status = 404

\* C13: the step in which the forwarding of a request fails (fetch rejects:
\* no connection, or the connection is closed before a response) answers
\* that request with status 502 and the failure reason, leaves every other
\* connection, the listeners and the orchestrator as they are; and while
\* the orchestrator serves, a listener is open that takes the next request
\* of every connection that is not waiting for the backend, and each
\* connection that waits for the backend can be answered.
C13_BadGatewayPerRequest ==
  /\ [](dpc = "serving" =>
          /\ listeners # {}
          /\ \A c \in Conns :
               IF requests[c].stage = "proxying"
               THEN ENABLED (\E o \in BackendOutcomes : BackendResponds(c, o))
               ELSE ENABLED (\E l \in listeners, req \in Requests :
                               Accept(c, l, req)))
  /\ [][\A c \in Conns :
          (/\ requests[c].stage = "proxying"
           /\ requests'[c].stage = "done"
           /\ requests'[c].backend.status = 0) =>
            /\ requests'[c].response.status = 502
            /\ requests'[c].response.from = "proxy"
            /\ requests'[c].response.body =
                 [error |-> requests'[c].backend.error]
            /\ \A d \in Conns \ {c} : requests'[d] = requests[d]
            /\ listeners' = listeners
            /\ dpc' = "serving"]_vars

\* one connection was answered 502 after a reset and, with the same
\* listeners, the other one received what the backend answered
C13_Witness ==
  /\ dpc = "serving"
  /\ Answered(1) /\ requests[1].response.status = 502
  /\ requests[1].response.body = [error |-> "reset"]
  /\ Answered(2) /\ requests[2].response.from = "backend"
  /\ requests[2].response.status = 200

\* C14: when a certificate path is configured (command line, saved
\* configuration or prompt, in any deployment mode) and privkey.pem or
\* fullchain.pem is missing under it, no listener is ever open and the
\* command never gets as far as listening.
C14_MissingCertIsFatal ==
  (certConfigured # "none" /\ ~({PrivKey, FullChain} \subseteq certFiles)) =>
    /\ listeners = {}
    /\ dpc \notin {"listening", "serving"}

\* C15: while the HTTPS server is open, the only server on the insecure
\* port is the redirect server, and every request taken on the insecure
\* port, whatever its method and path, is answered at once with status 301
\* and a Location of the same host, path and query on https and the secure
\* port; it is neither forwarded to the backend nor served a file.
C15_InsecurePortRedirects ==
  Listener(SecurePort, "https") \in listeners =>
    /\ \A l \in listeners : l.port = InsecurePort => l.kind = "redirect"
    /\ \A c \in Conns :
         (requests[c].stage # "free"
            /\ requests[c].listener.port = InsecurePort) =>
           LET r == requests[c] IN
             /\ Answered(c)
             /\ r.forwarded = NoMessage
             /\ r.backend = NoMessage
             /\ r.response.status = 301
             /\ r.response.from = "redirect"
             /\ r.response.headers =
                  [Location |-> [scheme |-> "https", host |-> r.req.host,
                                 port |-> SecurePort, path |-> r.req.path,
                                 query |-> r.req.query]]

\* a POST to an API path on the insecure port was answered 301
C15_Witness ==
  /\ Listener(SecurePort, "https") \in listeners
  /\ Answered(1)
  /\ requests[1].listener = Listener(InsecurePort, "redirect")
  /\ requests[1].req.method = "POST"
  /\ StartsWith(requests[1].req.path, ApiPrefix)
  /\ requests[1].response.status = 301

\* C16: when the HTTPS set-up threw for a reason other than missing
\* certificate files (a key that cannot be used, a port that cannot be
\* bound), the orchestrator does not end with an error status, and once it
\* listens it has exactly one server, the plaintext one with the routing
\* logic on the insecure port, and no HTTPS server.
C16_TlsFailureFallsBack ==
  tlsFailure \in {"badkey", "port443", "port80"} =>
    /\ ~(dpc = "exited" /\ deployExit = FatalExitCode)
    /\ dpc \in {"listening", "serving"} =>
         listeners = {Listener(InsecurePort, "http")}

\* C17: when no certificate path is configured, at most one server is ever
\* open, it is a plaintext server with the routing logic on the web port
\* (local) or the insecure port (otherwise), exactly one is open once the
\* command listens, and the HTTPS set-up is never tried.
C17_PlaintextOnly ==
  certConfigured = "none" =>
    /\ Cardinality(listeners) <= 1
    /\ \A l \in listeners :
         /\ l.kind \in {"local", "http"}
         /\ l.port = IF deploymentType = "local" THEN webPort
                     ELSE InsecurePort
    /\ dpc \in {"listening", "serving"} => Cardinality(listeners) = 1
    /\ sslPath = Unset
    /\ tlsFailure = "none"

\* a local deployment without certificate path serves on --web-port
C17_Witness ==
  /\ certConfigured = "none"
  /\ dpc = "serving"
  /\ deploymentType = "local"
  /\ listeners = {Listener(CustomWebPort, "local")}
  /\ Answered(1)

\* C18: once the backend child has been spawned, an orchestrator that a
\* signal has ended has sent the child its termination (or the child has
\* ended) and has no listener left.
C18_SignalStopsChild ==
  (/\ dpc = "killed" \/ (dpc = "exited" /\ deployExit = CleanupExitCode)
   /\ apiProcess # "none") =>
    /\ apiProcess \in {"signalled", "exited"}
    /\ listeners = {}

\* C19: when cleanup has ended the orchestrator, the backend child has
\* exited.
C19_ExitAfterChild ==
  (dpc = "exited" /\ deployExit = CleanupExitCode /\ apiProcess # "none") =>
    apiProcess = "exited"

\* C20: a request that was being proxied when the signal arrived is not
\* cut off by the shutdown: the step in which cleanup runs leaves every
\* request that waits for the backend waiting, to be answered within the
\* grace period.
C20_GracePeriod ==
  [][(dpc = "serving" /\ dpc' = "exited") =>
       \A c \in Conns :
         requests[c].stage = "proxying" => requests'[c].stage # "cut"]_vars

\* C21: every request that waits for the backend eventually stops waiting:
\* it is answered (with the backend's response or with a gateway error),
\* also when the backend has accepted the connection and never responds.
C21_ProxiedRequestResolves ==
  \A c \in Conns :
    (requests[c].stage = "proxying") ~> (requests[c].stage # "proxying")

\* C22: the backend child is started once, by the spawn that follows the
\* build, and never again.  The step in which it ends by itself changes
\* neither the listeners nor the orchestrator; while the orchestrator
\* serves with the child gone, a listener is open that takes the next
\* request, every API request answered then gets status 502 from the
\* proxy and every other request is answered from the static root.
C22_NoRespawn ==
  /\ [](/\ dpc \in {"spawned", "listening", "serving"} => apiProcess # "none"
       /\ (dpc = "serving" /\ apiProcess = "exited") =>
            /\ listeners # {}
            /\ \A c \in Conns :
                 requests[c].stage # "proxying" =>
                   ENABLED (\E l \in listeners, req \in Requests :
                              Accept(c, l, req)))
  /\ [][/\ apiProcess' = "running" =>
            \/ apiProcess = "running"
            \/ apiProcess = "none" /\ dpc = "built" /\ dpc' = "spawned"
        /\ (apiProcess = "running" /\ apiProcess' = "exited") =>
            listeners' = listeners /\ dpc' = dpc /\ requests' = requests
        /\ \A c \in Conns :
             (/\ dpc = "serving" /\ apiProcess = "exited"
              /\ requests'[c] # requests[c]
              /\ requests'[c].stage = "done"
              /\ requests'[c].listener.kind \in {"local", "https", "http"}) =>
               IF StartsWith(requests'[c].req.path, ApiPrefix)
               THEN /\ requests'[c].response.status = 502
                    /\ requests'[c].response.from = "proxy"
               ELSE /\ requests'[c].response.from = "static"
                    /\ requests'[c].response.status \in {200, 404}]_vars

\* after the child had ended by itself, the orchestrator still serving
\* answered an API request with 502
C22_Witness ==
  /\ dpc = "serving"
  /\ apiProcess = "exited"
  /\ Answered(1) /\ IsApiRequest(1)
  /\ requests[1].response.status = 502

C24_DomainResolved ==
  (deploymentType # "local" /\ domain = Unset) =>
    /\ dpc \in {"idle", "exited", "killed"}
    /\ "env" \notin produced
    /\ listeners = {}

\* C25: when the command has ended because argon-ui was not found or
\* because the certificate directory, privkey.pem or fullchain.pem was
\* missing, it has ended with the error status, has opened no listener,
\* spawned no child and written neither .env nor the saved configuration;
\* and a certificate path from the command line or the saved
\* configuration of a deployment that is not local, with the directory or
\* one of the two files missing, always ends the command that way.
C25_ConfigErrorBeforeWrites ==
  /\ (dpc = "exited" /\ fatal \in {"noui", "certs"}) =>
       /\ deployExit = FatalExitCode
       /\ listeners = {}
       /\ apiProcess = "none" /\ childPort = NoPort
       /\ "env" \notin produced
       /\ "config" \notin produced
  /\ (/\ deploymentType # "local"
      /\ certConfigured \in {"option", "config"}
      /\ ~({".", PrivKey, FullChain} \subseteq certFiles)) =>
       /\ dpc \in {"idle", "exited"}
       /\ dpc = "exited" => fatal \in {"noui", "install", "certs"}

\* the command ended on a certificate directory without privkey.pem, after
\* bun install and before anything else was written
C25_Witness ==
  /\ dpc = "exited"
  /\ fatal = "certs"
  /\ certFiles = {".", FullChain}
  /\ produced = {"modules"}

\* C26: request handling shares no mutable state.  The step that answers a
\* connection waiting for the backend gives it what the backend produced
\* for that connection's own forwarded request (its method, path and
\* query; after a redirect, what fetch obtained by following it), whatever
\* the other connections wait for, and leaves the other connections as
\* they are; and no step taken while the orchestrator serves changes the
\* API port, the web port, the static root, the certificate material, the
\* domain or the listeners.
C26_NoSharedState ==
  [][/\ \A c \in Conns :
          (/\ requests[c].stage = "proxying"
           /\ requests'[c].stage = "done") =>
            LET own == ForwardedRequest(requests[c].req, apiPort) IN
              /\ requests'[c].req = requests[c].req
              /\ requests'[c].backend.status # 0 =>
                   /\ requests'[c].backend.body.method = requests[c].req.method
                   /\ requests'[c].backend.body.path = requests[c].req.path
                   /\ requests'[c].backend.body.query = requests[c].req.query
                   /\ requests'[c].response =
                        Relay(Fetch(own, requests'[c].backend.body.outcome))
              /\ \A d \in Conns \ {c} : requests'[d] = requests[d]
     /\ (dpc = "serving" /\ dpc' = "serving") =>
          UNCHANGED <<apiPort, webPort, distFiles, certFiles, sslPath, domain,
                      deploymentType, listeners, childPort>>]_vars

\* while connection 2 waits for the backend's answer to its POST,
\* connection 1 has received the answer to its own GET
C26_Witness ==
  /\ dpc = "serving"
  /\ requests[2].stage = "proxying"
  /\ requests[2].req.path = ApiPrefix \o <<"l">>
  /\ Answered(1)
  /\ requests[1].req.path = ApiPrefix \o <<"w">>
  /\ requests[1].response.from = "backend"
  /\ requests[1].response.status = 200
  /\ requests[1].response.body.path = ApiPrefix \o <<"w">>
  /\ requests[1].response.body.method = "GET"

\* C27: the backend child exists and a listener is open only when bun
\* install, the build and the copy to _dist have all succeeded; when the
\* command has ended because one of them failed, it has ended with a
\* non-zero status, without child and without listener; and the PORT given
\* to the child is the API port, the port of every forwarded request.
C27_ServeAfterBuild ==
  /\ (\/ apiProcess # "none"
      \/ listeners # {}
      \/ dpc \in {"spawned", "listening", "serving"}) =>
       {"modules", "build", "dist"} \subseteq produced
  /\ (dpc = "exited" /\ fatal \in {"install", "build", "copy"}) =>
       /\ deployExit # 0
       /\ apiProcess = "none"
       /\ listeners = {}
  /\ apiProcess # "none" => childPort = apiPort
  /\ \A c \in Conns :
       requests[c].forwarded # NoMessage =>
         requests[c].forwarded.port = childPort

\* with --port, the child was given that port and a request forwarded to
\* it was answered by the backend
C27_Witness ==
  /\ dpc = "serving"
  /\ apiProcess = "running"
  /\ childPort = CustomApiPort
  /\ {"modules", "env", "build", "dist"} \subseteq produced
  /\ Answered(1)
  /\ requests[1].response.from = "backend"
  /\ requests[1].forwarded.port = CustomApiPort

\* C28: an invocation that has ended with the error status (it could not
\* write, build, copy, or bring up its listeners) has not written the
\* saved configuration.
C28_ConfigSavedLast ==
  (dpc = "exited" /\ deployExit = FatalExitCode) => "config" \notin produced

\* C29: a --list or a run invoked when the migrations directory does not
\* exist and the database has no migrations table creates both, finds no
\* file and no row, calls no up() and ends at once with status 0, the
\* listing showing no row, total 0 and applied 0; and an invocation that
\* finds the directory but not the table creates the table empty, and its
\* listing reports 0 applied.
C29_FreshInstall ==
  [][/\ \A p \in Procs :
          (~dirExists /\ ~tableExists /\ cmd'[p] \in {"list", "run"}) =>
            /\ dirExists' /\ tableExists'
            /\ disk' = {} /\ ledger' = <<>>
            /\ pc'[p] = "done"
            /\ exitCode'[p] = 0
            /\ ran'[p] = <<>>
            /\ upCount' = upCount
            /\ cmd'[p] = "list" =>
                 /\ listing'[p].rows = <<>>
                 /\ listing'[p].total = 0
                 /\ listing'[p].applied = 0
     /\ (~tableExists /\ tableExists') =>
          /\ ledger' = <<>>
          /\ \A p \in Procs :
               cmd'[p] = "list" => listing'[p].applied = 0]_vars

\* the first command of a fresh installation was --list: both the
\* directory and the table exist now, the listing is empty, the status 0
C29_Witness ==
  /\ cmd[1] = "list"
  /\ exitCode[1] = 0
  /\ dirExists /\ tableExists
  /\ disk = {} /\ ledger = <<>>
  /\ listing[1] = [rows |-> <<>>, total |-> 0, applied |-> 0, pending |-> 0]

\* C30: while two runs are in their loops at the same time, no file has
\* had its up() executed by both; and a run over files with pairwise
\* different ids never fails on the primary key of the ledger.
C30_OverlappingRunsDisjoint ==
  /\ (RunOf(1) /\ RunOf(2) /\ Running(1) /\ Running(2)) =>
       SeqToSet(Executed(1)) \cap SeqToSet(Executed(2)) = {}
  /\ DistinctIds =>
       \A p \in Procs : RunOf(p) => failure[p] # "constraint"

\* C31: the handlers of the local server, of the HTTPS server and of the
\* plaintext server decide alike: for every request and every static root
\* the three give the same decision (forward, a file with 200, index.html
\* with 200, or 404); the step in which any of the three servers takes a
\* request leaves the connection as each of the three handlers decides;
\* and the step that ends the wait for the backend answers with the relay
\* of what fetch obtained, or with 502, whichever server took the request.
C31_SameRouting ==
  /\ [](\A req \in Requests, files \in DistRoots \cup {distFiles} :
          /\ LocalFetch(req, files) = HttpsFetch(req, files)
          /\ HttpsFetch(req, files) = HttpFetch(req, files))
  /\ [][\A c \in Conns :
          /\ (/\ requests'[c] # requests[c]
              /\ requests[c].stage \in {"free", "done"}
              /\ requests'[c].stage \in {"proxying", "done"}
              /\ requests'[c].listener.kind \in {"local", "https", "http"}) =>
               \A kind \in {"local", "https", "http"} :
                 LET req == requests'[c].req
                     decision == Handler(kind, req, distFiles)
                 IN IF decision = Forward
                    THEN /\ requests'[c].stage = "proxying"
                         /\ requests'[c].forwarded =
                              ForwardedRequest(req, apiPort)
                    ELSE /\ requests'[c].stage = "done"
                         /\ requests'[c].response = decision
          /\ (requests[c].stage = "proxying" /\ requests'[c].stage = "done") =>
               requests'[c].response =
                 IF requests'[c].backend.status = 0
                 THEN BadGateway(requests'[c].backend.error)
                 ELSE Relay(Fetch(requests[c].forwarded,
                                  requests'[c].backend.body.outcome))]_vars

\* the plaintext server of a deployment with a domain answered a path
\* that ends in "/" and names no file with index.html
C31_Witness ==
  /\ Answered(1)
  /\ requests[1].listener = Listener(InsecurePort, "http")
  /\ requests[1].req.path = <<"/", "s", "/">>
  /\ requests[1].response = FileResponse(IndexHtml)
  /\ requests[1].response = LocalFetch(requests[1].req, distFiles)
  /\ requests[1].response = HttpsFetch(requests[1].req, distFiles)

\* C32: an orchestrator that has ended with the error status after it
\* had spawned the backend child (a listener could not be opened) has
\* terminated the child: the child has been sent its termination or has
\* ended, it is not left running.
C32_ChildStoppedOnFailedStart ==
  (dpc = "exited" /\ deployExit = FatalExitCode /\ apiProcess # "none") =>
    apiProcess \in {"signalled", "exited"}

\* C33: a run without --local, --domain, --ssl-path, --port and --web-port
\* that has loaded the deploy.json written by an earlier run resolves the
\* deployment mode, the domain, the certificate path, the API port and
\* the web port that the run which wrote the file had resolved.
C33_RoundTrip ==
  (/\ dpc = "configured"
   /\ savedRun # NoSavedRun
   /\ inputs.config = savedRun.config
   /\ inputs.given \in {DeployOpt(f, FALSE, Unset, Unset, NoPort, NoPort) :
                          f \in BOOLEAN}) =>
    /\ deploymentType = savedRun.by.deploymentType
    /\ domain = savedRun.by.domain
    /\ sslPath = savedRun.by.sslPath
    /\ apiPort = savedRun.by.apiPort
    /\ webPort = savedRun.by.webPort

\* C34: in the output of `bolt migrate --list` the summary line agrees
\* with the table above it: Applied is the number of rows shown as
\* Applied, Pending the number shown as Pending, Pending is not negative
\* and Applied + Pending = Total.
C34_CountsAgreeWithStatuses ==
  \A p \in Procs :
    cmd[p] = "list" =>
      LET out == listing[p]
          shown(status) ==
            Cardinality({k \in 1..Len(out.rows) : out.rows[k].status = status})
      IN  /\ out.applied = shown("Applied")
          /\ out.pending = shown("Pending")
          /\ out.pending >= 0
          /\ out.applied + out.pending = out.total

\* C35: `bolt migrate --create` and `bolt migrate --list` are read-only
\* with respect to migration state.  Whatever else the command line holds,
\* an invocation with --create does the create branch and ends, and one
\* with --list and no --create does the list branch and ends; neither
\* calls a forward operation or adds, removes or changes a ledger entry.
C35_CreateAndListReadOnly ==
  [][\A p \in Procs, options \in OptionSets :
       LET step == /\ clock' = clock
                   /\ \A q \in Procs \ {p} : pc'[q] = pc[q] /\ cmd'[q] = cmd[q]
                   /\ \/ Create(p, options)
                      \/ NoAction(p, options)
                      \/ StartRun(p, options)
                      \/ List(p, options)
           branch == IF options.create # Unset THEN "create" ELSE "list"
       IN  ((options.create # Unset \/ options.list) /\ step) =>
             /\ cmd'[p] = branch
             /\ pc'[p] = "done"
             /\ exitCode'[p] = SuccessExitCode
             /\ ledger' = ledger
             /\ upCount' = upCount
             /\ ran'[p] = <<>>]_vars

\* a --list has ended on a ledger with an entry and a file that is still
\* pending
C35_Witness ==
  /\ cmd[1] = "list"
  /\ pc[1] = "done"
  /\ ledger # <<>>
  /\ \E k \in 1..Len(listing[1].rows) : listing[1].rows[k].status = "Pending"

\* ------------------------------------------------- the users repository
\* Rows keep the columns that the calls below read or decide on: password
\* and the two dates are written by the same statements as the others.
\* An optional argument is a set: {} when it is undefined, {v} when it is v.

MaxUuid == 4      \* values of randomUUID() in one behaviour

\* Permissions.ADMIN
ADMIN == <<"a", "d", "m", "i", "n", ".", "*">>

\* statements that take effect one by one, outside any transaction
RollbackKeepsWork(before, working) == working

\* ROLLBACK: the tables are again as BEGIN TRANSACTION found them
Rollback(before, working) == before

\* createUser(username, hashedPassword, permissions), with the statement
\* that throws, if one does.  Nothing is awaited between BEGIN and COMMIT.
createUser(username, permissions, firstUserHasAdmin, fails) ==
  /\ issued + 2 <= MaxUuid
  /\ LET before == [users |-> users, projects |-> projects]
         isFirstUser == Cardinality(users) = 0
         \* Permissions.USER, a member of ../permissions other than ADMIN
         USER == <<"u", "s", "e", "r">>
         userPermissions ==
           IF permissions # {} THEN CHOOSE l \in permissions : TRUE
           ELSE IF isFirstUser /\ firstUserHasAdmin THEN <<ADMIN>>
           ELSE <<USER>>
         user == [id |-> issued + 1, username |-> username,
                  permissions |-> userPermissions]
         defaultProject == [id |-> issued + 2, name |-> "Default",
                            userId |-> user.id]
         withUser == [before EXCEPT !.users = @ \cup {user}]
         withProject == [withUser EXCEPT !.projects = @ \cup {defaultProject}]
         working == CASE fails \in {"begin", "user"} -> before
                      [] fails = "project" -> withUser
                      [] OTHER -> withProject
         after == CASE fails = "none" -> withProject
                    [] fails = "begin" -> before
                    [] OTHER -> Rollback(before, working)
     IN  /\ users' = after.users
         /\ projects' = after.projects
         /\ issued' = issued + (CASE fails = "begin" -> 0
                                  [] fails = "user" -> 1
                                  [] OTHER -> 2)
         /\ userResult' =
              [op |-> "createUser", arg |-> user.id,
               outcome |-> IF fails = "none" THEN "returned" ELSE "thrown",
               error |-> IF fails = "none" THEN "" ELSE fails,
               user |-> IF fails = "none" THEN {user} ELSE {},
               changed |-> FALSE]
  /\ UNCHANGED <<checked, migrateVars, deployVars>>

\* updateUser(where, data)
updateUser(id, data) ==
  /\ IF \A u \in users : u.id # id
     THEN /\ userResult' = [op |-> "updateUser", arg |-> id,
                            outcome |-> "thrown", error |-> "User not found",
                            user |-> {}, changed |-> FALSE]
          /\ UNCHANGED users
     ELSE LET current == CHOOSE u \in users : u.id = id
              updated ==
                [current EXCEPT
                   !.username = IF data.username = {} THEN @
                                ELSE CHOOSE n \in data.username : TRUE,
                   !.permissions = IF data.permissions = {} THEN @
                                   ELSE CHOOSE l \in data.permissions : TRUE]
          IN  /\ users' = (users \ {current}) \cup {updated}
              /\ userResult' = [op |-> "updateUser", arg |-> id,
                                outcome |-> "returned", error |-> "",
                                user |-> {updated}, changed |-> FALSE]
  /\ UNCHANGED <<projects, issued, checked, migrateVars, deployVars>>

\* an update that inserts the row when no row has the id
updateUserPermissionsUpsert(userId, permissions, fails) ==
  /\ users' = {u \in users : u.id # userId}
                \cup {[id |-> userId, username |-> "u",
                       permissions |-> permissions]}
  /\ userResult' = [op |-> "updateUserPermissions", arg |-> userId,
                    outcome |-> "returned", error |-> "", user |-> {},
                    changed |-> \E u \in users : u.id = userId]
  /\ UNCHANGED <<projects, issued, checked, migrateVars, deployVars>>

\* updateUserPermissions(userId, permissions): the number of rows the
\* UPDATE changed decides; a statement that throws gives false
updateUserPermissions(userId, permissions, fails) ==
  /\ users' = IF fails THEN users
              ELSE {IF u.id = userId
                    THEN [u EXCEPT !.permissions = permissions]
                    ELSE u : u \in users}
  /\ userResult' = [op |-> "updateUserPermissions", arg |-> userId,
                    outcome |-> "returned", error |-> "", user |-> {},
                    changed |-> ~fails /\ \E u \in users : u.id = userId]
  /\ UNCHANGED <<projects, issued, checked, migrateVars, deployVars>>

\* delete(where).  Whether the schema removes the projects of a deleted
\* user with it is not decided in this file: both are possible.
delete(id, cascade) ==
  /\ users' = {u \in users : u.id # id}
  /\ projects' = IF cascade THEN {q \in projects : q.userId # id}
                 ELSE projects
  /\ userResult' = IF \E u \in users : u.id = id
                   THEN [op |-> "delete", arg |-> id, outcome |-> "returned",
                         error |-> "", user |-> {}, changed |-> TRUE]
                   ELSE [op |-> "delete", arg |-> id, outcome |-> "thrown",
                         error |-> "User not found", user |-> {},
                         changed |-> FALSE]
  /\ UNCHANGED <<issued, checked, migrateVars, deployVars>>

\* calls of the repository, one after the other, on ids that exist and on
\* ids that do not
SpecUsers ==
  /\ Init
  /\ [][\/ (\E username \in {"u", "v"},
              permissions \in {{}, {<<>>}, {<<ADMIN>>}},
              firstUserHasAdmin \in BOOLEAN,
              fails \in {"none", "begin", "user", "project", "commit"} :
             createUser(username, permissions, firstUserHasAdmin, fails))
       \/ (\E id \in 1..MaxUuid,
              data \in [username : {{}, {"v"}},
                        permissions : {{}, {<<ADMIN>>}}] :
             updateUser(id, data))
       \/ (\E userId \in 1..MaxUuid, permissions \in {<<>>, <<ADMIN>>},
              fails \in BOOLEAN :
             updateUserPermissions(userId, permissions, fails))
       \/ (\E id \in 1..MaxUuid, cascade \in BOOLEAN :
             delete(id, cascade))]_vars

\* C36: createUser is all-or-nothing.  A call that returns has added the
\* user row and the default project row of that user and nothing else; a
\* call in which a statement fails throws the error of that statement and
\* leaves the users and the projects table as they were before the call.
C36_CreateUserAllOrNothing ==
  [][(/\ userResult'.op = "createUser"
      /\ <<users, projects, issued, userResult>>'
           # <<users, projects, issued, userResult>>) =>
       \/ /\ userResult'.outcome = "returned"
          /\ \E u \in userResult'.user :
               /\ u \notin users
               /\ users' = users \cup {u}
               /\ \E q \in projects' \ projects :
                    /\ q.userId = u.id
                    /\ projects' = projects \cup {q}
       \/ /\ userResult'.outcome = "thrown"
          /\ userResult'.error \in {"begin", "user", "project", "commit"}
          /\ users' = users
          /\ projects' = projects]_vars

\* the insert of the default project failed while other users existed
C36_Witness ==
  /\ userResult.op = "createUser"
  /\ userResult.outcome = "thrown"
  /\ userResult.error = "project"
  /\ users # {}
  /\ \A u \in users : \E q \in projects : q.userId = u.id

\* C37: updateUser and delete on an id that no row has throw 'User not
\* found', updateUserPermissions on such an id returns false, and none of
\* the three creates, modifies or removes a row of the users table.
C37_MissingUserChangesNothing ==
  [][(/\ userResult'.op \in {"updateUser", "updateUserPermissions", "delete"}
      /\ \A u \in users : u.id # userResult'.arg) =>
       /\ users' = users
       /\ IF userResult'.op = "updateUserPermissions"
          THEN /\ userResult'.outcome = "returned"
               /\ ~userResult'.changed
          ELSE /\ userResult'.outcome = "thrown"
               /\ userResult'.error = "User not found"]_vars

\* a call on an id that does not exist was answered while a user exists
C37_Witness ==
  /\ userResult.op \in {"updateUser", "updateUserPermissions", "delete"}
  /\ users # {}
  /\ \A u \in users : u.id # userResult.arg
  /\ userResult.outcome = "thrown" \/ ~userResult.changed

\* ---------------------------------------------- the permission middleware
MaxPerms == 2     \* permissions in a user's list

\* hasPermission(userPermissions, requiredPermission); the list is {} when
\* it is null or undefined
hasPermission(userPermissions, requiredPermission) ==
  IF userPermissions = {} THEN FALSE
  ELSE LET list == CHOOSE l \in userPermissions : TRUE IN
    IF Len(list) = 0 THEN FALSE
    ELSE IF \E k \in 1..Len(list) : list[k] = ADMIN THEN TRUE
    ELSE \E k \in 1..Len(list) :
           LET permission == list[k] IN
             IF permission = requiredPermission THEN TRUE
             ELSE IF EndsWith(permission, <<".", "*">>)
             THEN LET prefix == SubSeq(permission, 1, Len(permission) - 2)
                  IN  StartsWith(requiredPermission, prefix)
             ELSE FALSE

\* the middleware checkPermission(permission) on a request whose
\* req.user?.permissions is `permissions`
checkPermission(permission, permissions) ==
  /\ checked' =
       IF permissions = {}
       THEN [permissions |-> permissions, required |-> permission,
             status |-> 401, next |-> FALSE]
       ELSE IF ~hasPermission(permissions, permission)
       THEN [permissions |-> permissions, required |-> permission,
             status |-> 403, next |-> FALSE]
       ELSE [permissions |-> permissions, required |-> permission,
             status |-> 0, next |-> TRUE]
  /\ UNCHANGED <<users, projects, issued, userResult, migrateVars,
                 deployVars>>

\* requests of users with every list of up to MaxPerms permissions out of
\* admin.*, s.*, s.v, sv.m, s and t.v, and of users without a list
SpecPermission ==
  /\ Init
  /\ [][\E permission \in {<<"s", ".", "v">>, <<"s", "v", ".", "m">>,
                           <<"s">>, <<"t", ".", "v">>},
           list \in UNION {[1..n -> {ADMIN, <<"s", ".", "*">>,
                                     <<"s", ".", "v">>,
                                     <<"s", "v", ".", "m">>, <<"s">>,
                                     <<"t", ".", "v">>}] : n \in 0..MaxPerms},
           given \in BOOLEAN :
          checkPermission(permission, IF given THEN {list} ELSE {})]_vars

\* C38: hasPermission is true exactly when the list holds admin.*, the
\* required permission itself, or a wildcard p.* such that the required
\* permission is p or lies below p (begins with p and a dot); it is false
\* for an empty list and for no list.  checkPermission answers 401 when the
\* request has no permission list, 403 when hasPermission is false, and
\* calls next() only when it is true.
C38_GrantsOnlyWhenEntitled ==
  checked.required # <<>> =>
    LET required == checked.required
        granted == hasPermission(checked.permissions, required)
        entitled ==
          /\ checked.permissions # {}
          /\ LET list == CHOOSE l \in checked.permissions : TRUE IN
               \E k \in 1..Len(list) :
                 \/ list[k] = ADMIN
                 \/ list[k] = required
                 \/ /\ EndsWith(list[k], <<".", "*">>)
                    /\ LET p == SubSeq(list[k], 1, Len(list[k]) - 2) IN
                         \/ required = p
                         \/ StartsWith(required, p \o <<".">>)
    IN  /\ granted <=> entitled
        /\ checked.permissions = {} =>
             checked.status = 401 /\ ~checked.next
        /\ (checked.permissions # {} /\ ~granted) =>
             checked.status = 403 /\ ~checked.next
        /\ checked.next <=> (checked.permissions # {} /\ granted)

====
